---- MODULE Spec2Model ----
(***************************************************************************)
(* Verification model of raspi-directhw: the firmware mailbox interface    *)
(* (mailbox.h) on top of the memory-mapped register block (hw.h).          *)
(*                                                                         *)
(* The caller is one sequential thread; every register access and every    *)
(* memory barrier of mbox_write / mbox_read / mbox_call is one step, so    *)
(* that the firmware (the other side of the two FIFOs) can interleave.     *)
(***************************************************************************)
EXTENDS Integers, Sequences, FiniteSets, TLC

\* ------------------------------------------------------------------ bounds
\* Callers that use the mailbox at the same time.
NCallers == 2
\* Entries of each hardware FIFO in the model.
FifoDepth == 2
\* Words of other mailbox users that the firmware interleaves in one run.
MaxNoise == 1
\* Bytes of stack in which the compiler may place a property buffer.
StackSpan == 16
\* Largest value buffer, in words, of a property message built by a user.
MaxPayload == 6
\* Entries of the PCM receive and transmit FIFOs in the model.
PcmFifoDepth == 2
\* Bytes the SPI master clocks in one run of the byte operations.
MaxXfer == 3
\* Bytes the SPI master clocks in one run of spisl_synchronize, and how many
\* of them may differ from the marker byte.
MaxStream == 22
MaxBad == 1
\* Advances of the system timer's counter that one run observes.
MaxAdvances == 4
\* Calls of raspi_map_hw in one run.
MaxCalls == 3
\* Calls of gpio_configure in one run.
MaxConfigs == 3
\* Every bit rate from 3 bit/s up to this one is tried.
MaxBitrate == 300

\* --------------------------------------------------------------- constants
\* A uint32_t is the pair <<high half, low half>> of its 16-bit halves.
Half == 2^16
U32(x) == <<(x \div Half) % Half, x % Half>>
MaxU32 == <<Half - 1, Half - 1>>

\* The low 31 bits of a word: what a bit-field of width 31 keeps.
Low31(w) == <<w[1] % 2^15, w[2]>>

PROP_REQUEST == 0
PROP_RESPONSE_SUCCESS == <<2^15, 0>>
PROP_RESPONSE_ERROR == <<2^15, 1>>

MBOX_TAG_GET_FIRMWARE == 1
MBOX_TAG_GET_CLOCK_STATE == 196609
MBOX_TAG_GET_CLOCK_RATE == 196610
MBOX_TAG_GET_CLOCK_RATE_MEASURED == 196679
MBOX_TAG_SET_CLOCK_STATE == 229377
MBOX_TAG_SET_CLOCK_RATE == 229378

MBOX_CLOCK_UART == 2
MBOX_CLOCK_PIXEL_BVB == 14

\* The property channel (ARM to VideoCore) of raspi_MBOX_CHANNEL_t, with the
\* number the firmware interface gives it.
MBOX_CH_PROPVC == 8

\* ------------------------------------------------------- integer helpers
RECURSIVE BitOr(_, _)
BitOr(a, b) ==
    IF a = 0 THEN b
    ELSE IF b = 0 THEN a
    ELSE (IF a % 2 = 1 \/ b % 2 = 1 THEN 1 ELSE 0) + 2 * BitOr(a \div 2, b \div 2)

\* a | b on uint32_t
BitOr32(a, b) == <<BitOr(a[1], b[1]), BitOr(a[2], b[2])>>

RECURSIVE BitAnd(_, _)
BitAnd(a, b) ==
    IF a = 0 \/ b = 0 THEN 0
    ELSE (IF a % 2 = 1 /\ b % 2 = 1 THEN 1 ELSE 0) + 2 * BitAnd(a \div 2, b \div 2)

\* a & b and ~a on uint32_t
BitAnd32(a, b) == <<BitAnd(a[1], b[1]), BitAnd(a[2], b[2])>>
BitNot32(a) == <<Half - 1 - a[1], Half - 1 - a[2]>>

RoundUp(x, a) == ((x + a - 1) \div a) * a

MaxOf(S) == CHOOSE x \in S : \A y \in S : y <= x

\* ------------------------------------------------- layout of the buffers
\* typedef struct { uint32_t buffer_size; uint32_t code; }
\*   mbox_property_header_t __attribute__((aligned(16)));
\* The attribute raises the alignment of the type, not its size.
HeaderSize == 8
HeaderAlign == 16
\* mbox_tag_header_t: three 32-bit words, the third one a pair of bit-fields.
TagHeaderSize == 12
WordSize == 4

\* Variant: the header without its alignment attribute.
AlignofMbox_Natural == WordSize

\* Alignment of the struct built by mbox_property_struct(size): the largest
\* alignment of its members.
AlignofMbox == MaxOf({HeaderAlign, WordSize})

\* Offsets of the members of mbox_property_struct(n).
OffsetTag == RoundUp(HeaderSize, WordSize)
OffsetData == OffsetTag + TagHeaderSize
OffsetEnd(n) == OffsetData + WordSize * n

\* Variant: the size without the padding at the end.
SizeofMbox_Unpadded(n) == OffsetEnd(n) + WordSize

\* sizeof(mbox): the end of the last member, padded to the alignment of the
\* struct.
SizeofMbox(n) == RoundUp(OffsetEnd(n) + WordSize, AlignofMbox)

\* sizeof(mbox.data)
SizeofData(n) == WordSize * n

\* ------------------------------------------------------------ the inputs
ClockIds == {MBOX_CLOCK_UART, MBOX_CLOCK_PIXEL_BVB}
Freqs == {U32(3000000), MaxU32}
\* What an uninitialised stack slot may hold.
Garbage == {U32(0), MaxU32}
\* What the firmware may write into a value word.
FwVals == {U32(1), MaxU32}

\* Addresses at which the compiler may place an object of alignment al.
StackAddrs(al) == {<<2^15 + 2^14, lo>> : lo \in {a \in 1..StackSpan : a % al = 0}}

\* Buffers the caller of the raw functions passes in.
RawAddrs == {<<2^4, 0>>}
RawChans == {1}


\* ------------------------------------------------------------- the state
VARIABLES
    pc,          \* position of the caller in the function it runs
    loc,         \* arguments and locals of the running function; matched
                 \* counts the reads that returned the word waited for,
                 \* pushes the writes of mbox_call to the data register;
                 \* state is data[1] as mbox_get_clock tested it
    mbox,        \* the property buffer, a local of the property functions
    ret,         \* value returned by the last function
    wfifo,       \* mailbox 1: words written by the ARM, read by the firmware
    rfifo,       \* mailbox 0: words written by the firmware, read by the ARM
    virtOffset,  \* distance of the process's addresses from the bus addresses
    noise,       \* words of other mailbox users delivered so far
    popped,      \* history: words the running mbox_call / mbox_read has read
    acc,         \* history: the last two register accesses of the caller
    lastPush,    \* history: what the last write to the data register sent
    fwAns,       \* history: the last answer the firmware wrote into the buffer
    conc         \* the callers, when several use the mailbox at the same time

\* The PCM peripheral used as SPI slave (spisl.h) and the receive FIFOs of the
\* other serial peripherals (spi.h, uart0.h, uart1.h).
VARIABLES
    drv,         \* the running spisl / poll function: position and locals
    pcm,         \* PCM and PCM clock-manager registers
    fsel,        \* function select of the GPIO pins 28..31
    rxfifo,      \* PCM receive FIFO, oldest byte first
    txfifo,      \* PCM transmit FIFO, oldest byte first
    wire,        \* the SPI master and the bit stream on the wire
    hist,        \* history: register accesses and bytes of the running function
    periph       \* fill level of the receive FIFO of SPI0, UART0 and UART1

PcmVars == <<drv, pcm, fsel, rxfifo, txfifo, wire, hist, periph>>

\* The system timer, the mapping of the register block into the process
\* (part_002) and the SPI master SPI0 (spi.h).
VARIABLES
    st,          \* the counter HW.ST.CLO, and the locals of st_delay
    pHW,         \* raspi_peripherals *pHW: 0, or the address of the mapping
    os,          \* raspi_map_hw: its locals, and what it asked of the system
    spi0,        \* SPI0: the fields of its CS register, its transmit FIFO
    GPIO,        \* the function-select registers HW.GPIO.FSEL[0..5]
    uart0        \* UART0: its baud-rate divisor and control registers

SysVars == <<st, pHW, os, spi0, GPIO, uart0>>

vars == <<pc, loc, mbox, ret, wfifo, rfifo, virtOffset, noise, popped, acc,
          lastPush, fwAns, conc, PcmVars, SysVars>>

Zero == U32(0)
NoLoc == [fn |-> "none", chan |-> 0, addr |-> Zero, clock |-> 0, freq |-> Zero,
          wanted |-> Zero, tagid |-> 0, callno |-> 0, dirty |-> FALSE,
          matched |-> 0, pushes |-> 0, state |-> Zero]
NoMbox == [n |-> 0, buffer_size |-> Zero, code |-> Zero, tag |-> Zero,
           tag_buffer_size |-> Zero, response_length |-> Zero,
           has_response |-> 0, data |-> <<>>, end |-> Zero]
NoPush == [word |-> Zero, chan |-> 0, addr |-> Zero, prop |-> FALSE,
           buf |-> NoMbox]
NoConc == [pc |-> <<>>, wanted |-> <<>>, popped |-> <<>>, pending |-> {}]
NoAcc == <<"none", "none", "none">>
NoAns == [tag |-> Zero, code |-> Zero, value |-> Zero, any |-> FALSE]

\* ------------------------------------------- PCM / GPIO / timer constants
\* raspi_GPIO_function
Input == 0
Alt2 == 6
\* The pins of connector P5 that carry the PCM signals: CLK, FS, DIN, DOUT.
PcmPins == 28..31
\* System timer ticks in 1 s, in 1 ms (ST_1s/1000) and in 1 us (ST_1s/1000000).
ST_1s == 1000000
ST_1ms == 1000
ST_1us == 1
CM_PASSWD == 90
CM_OSC == 1
\* #define CORE_CLOCK 250000000
CORE_CLOCK == 250000000
\* Size of both, the read and the write FIFO of SPI0.
raspi_SPI_FIFOSIZE == 16
\* spisl_synchronize: uint8_t marker = 0x81, and marker ^ 0xff.
Marker == 129
Sentinel == 255 - Marker
\* while (cnt++ < 10)
SyncCount == 10

\* A register is a function from the names of its bit-fields to their values.
\* The fields of the PCM and clock-manager registers that the model keeps.
RegFields ==
    [CS |-> {"EN", "RXON", "TXON", "TXCLR", "RXCLR", "TXERR", "RXERR", "SYNC",
             "STBY"},
     MODE |-> {"FSLEN", "FLEN", "FSI", "FSM", "CLKI", "CLKM", "CLK_DIS"},
     RXC |-> {"CH2EN", "CH1WID", "CH1POS", "CH1EN", "CH1WEX"},
     TXC |-> {"CH2EN", "CH1WID", "CH1POS", "CH1EN", "CH1WEX"},
     INTEN |-> {"U"}, INTSTC |-> {"U"}, GRAY |-> {"U"},
     CM_CTL |-> {"SRC", "ENAB", "MASH", "PASSWD"},
     CM_DIV |-> {"DIVF", "DIVI", "PASSWD"}]

\* A structure with designated initialisers: the fields not named are 0.
StructOf(r, init) ==
    [f \in RegFields[r] |-> IF f \in DOMAIN init THEN init[f] ELSE 0]

\* The constant structures of spisl_init.
init_cs ==
    StructOf("CS", [TXCLR |-> 1, RXCLR |-> 1, TXERR |-> 1, RXERR |-> 1,
                        TXON |-> 1, RXON |-> 1, SYNC |-> 1, STBY |-> 1,
                        EN |-> 1])
mode_master ==
    StructOf("MODE", [FLEN |-> 7, FSLEN |-> 7, CLKM |-> 0, CLKI |-> 0,
                          FSM |-> 0, FSI |-> 0, CLK_DIS |-> 1])
mode_slave ==
    StructOf("MODE", [FLEN |-> 7, FSLEN |-> 7, CLKM |-> 1, CLKI |-> 0,
                          FSM |-> 1, FSI |-> 1, CLK_DIS |-> 1])
pcm_cm_ctl ==
    StructOf("CM_CTL", [PASSWD |-> CM_PASSWD, SRC |-> CM_OSC, MASH |-> 1,
                         ENAB |-> 1])
pcm_cm_div ==
    StructOf("CM_DIV", [PASSWD |-> CM_PASSWD, DIVI |-> 250])

\* The registers after reset; sync is the value the SYNC bit reads as.
PcmReset ==
    [r \in DOMAIN RegFields |-> [f \in RegFields[r] |-> 0]]
        @@ [sync |-> 0, gated |-> FALSE]

\* The registers as another use of the PCM block may have left them: module
\* enabled, clock running, both channels enabled with 16-bit width,
\* interrupts enabled.
PcmUsed ==
    [PcmReset EXCEPT
        !.CS = [@ EXCEPT !["EN"] = 1, !["RXON"] = 1, !["TXON"] = 1],
        !.MODE = [@ EXCEPT !["FLEN"] = 31, !["FSLEN"] = 16],
        !.RXC = [f \in RegFields["RXC"] |-> IF f = "CH1WID" THEN 8 ELSE 1],
        !.TXC = [f \in RegFields["TXC"] |-> IF f = "CH1WID" THEN 8 ELSE 1],
        !.INTEN = [U |-> 15],
        !.GRAY = [U |-> 1]]

\* No function of the driver runs.  at is the line the function is at, back
\* the line of spisl_synchronize to return to (0: return to the user).
NoDrv == [fn |-> "none", at |-> 0, back |-> 0, num |-> 0, data |-> 0,
          incoming |-> 0, marker |-> 0, cnt |-> 0, ret |-> 0]
\* The wire.  offset: bits by which the master's stream is delayed against the
\* byte boundaries of the receiver, k0 its value at the start; sent: bytes the
\* master has clocked, bad of them not marker bytes, prev the last of them;
\* miso: the bytes the master has received.
NoWire == [offset |-> 0, k0 |-> 0, sent |-> 0, bad |-> 0, prev |-> 0,
           miso |-> <<>>]
\* History.  log: the register accesses of spisl_init; arrived: the bytes the
\* receive FIFO accepted, taken: how many of them were removed from it;
\* reads: the bytes spisl_read returned to the user since the last
\* spisl_write, as pairs <<position in arrived, value>>; run: the marker
\* bytes in a row that end the reads so far, before: its value one read
\* earlier; wrong: the bytes that spisl_synchronize compared and found to
\* differ from the marker; gates: the pulses of the clock gate that were
\* begun, pulses: those that were ended; mark: the bytes read when
\* spisl_synchronize was called or last found a wrong byte, compared: the
\* bytes read when it last compared one, eleventh: the byte it held when it
\* sent the ack; backlog: a pulse found bytes
\* in the receive FIFO; tx: the bytes the running function has written to
\* the FIFO register, each with the values of before, taken, gates and of the
\* master's byte count at that time; drained and
\* atWrite: the bytes the last
\* spisl_write discarded, and the receive FIFO when it wrote its byte;
\* wret: the FIFOs when the last spisl_write returned.
NoWret == [done |-> FALSE, k |-> 0, n |-> 0, left |-> 0, during |-> 0]
\* poll: the last poll that returned, and the fill level it found.
NoPoll == [fn |-> "none", num |-> 0, level |-> 0]
NoHist == [log |-> <<>>, arrived |-> <<>>, taken |-> 0, reads |-> <<>>,
           drained |-> <<>>, atWrite |-> <<>>, arrAtWrite |-> 0,
           wret |-> NoWret, poll |-> NoPoll, gates |-> 0, backlog |-> FALSE,
           run |-> 0, before |-> 0, tx |-> <<>>, wrong |-> 0, pulses |-> 0,
           mark |-> 0, compared |-> 0, eleventh |-> 0]
NoPeriph == [SPI0 |-> 0, UART0 |-> 0, UART1 |-> 0]

\* The timer with its counter at 0 and no delay running; st_delay(delay)
\* keeps start, ST_NOW as its loop last read it (now), and the history:
\* the ticks counted since start, the ticks counted at the last poll of the
\* loop (seen, once polled), the advances of the counter in this run.
NoSt == [CLO |-> Zero, start |-> Zero, now |-> Zero, delay |-> Zero,
         ticks |-> 0, advances |-> 0, polled |-> FALSE, seen |-> 0]
\* raspi_map_hw at rest: fd and arm_io_base are its locals; the history
\* counts the calls, the open("/dev/mem") and mmap it made, the descriptors
\* it holds open, and keeps the values returned and pHW before the call.
NoOs == [fd |-> -1, arm_io_base |-> 0, calls |-> 0, opens |-> 0, maps |-> 0,
         held |-> 0, rets |-> <<>>, was |-> 0, aborted |-> FALSE]
\* SPI0 after reset: no transfer active, chip select 0, both FIFOs empty (tx
\* counts the bytes of the transmit FIFO, periph.SPI0 those of the receive
\* FIFO).  dest: the argument of the running spi_start.  The history: open,
\* a spi_start has returned and no spi_stop has cleared TA since; fresh, the
\* receive FIFO was cleared by spi_start and no byte was shifted since;
\* seenDone, the running spi_stop has read DONE as 1; pending, the bytes
\* left in the transmit FIFO when spi_stop last cleared TA.  CDIV and CPHA
\* are the fields CLK.B.CDIV and CS.B.CPHA; speed, div and i are the argument
\* and the locals of spi_init, inited: a spi_init has returned.
NoSpi0 == [CS |-> 0, TA |-> 0, tx |-> 0, dest |-> 0, open |-> FALSE,
           fresh |-> FALSE, seenDone |-> FALSE, pending |-> 0,
           CDIV |-> 0, CPHA |-> 0, speed |-> Zero, div |-> 0, i |-> 0,
           inited |-> FALSE]
\* The GPIO function-select registers after reset, every pin an input, and
\* the history: last, the function each pin was last configured for (-1:
\* never), was, the registers when the model started, calls, the calls of
\* gpio_configure that the user has made.
GpioPinCount == 54
NoGpio == [FSEL |-> [i \in 0..5 |-> Zero], was |-> [i \in 0..5 |-> Zero],
           last |-> [p \in 0..(GpioPinCount - 1) |-> 0 - 1], calls |-> 0]
\* UART0 disabled and idle: the fields of CR and LCRH that the driver
\* writes, the fields IBRD.B.IBRD and FBRD.B.FBRD and the flag FR.B.BUSY;
\* bitrate is the argument of the running uart_init or uart0_init, inited:
\* it has returned.
NoUart0 == [CR |-> [UARTEN |-> 0, TXE |-> 0, RXE |-> 0],
            LCRH |-> [FEN |-> 0, WLEN |-> 0],
            IBRD |-> 0, FBRD |-> 0, BUSY |-> 0,
            bitrate |-> Zero, inited |-> FALSE]
SysOff ==
    /\ st = NoSt
    /\ pHW = 0
    /\ os = NoOs
    /\ spi0 = NoSpi0
    /\ GPIO = NoGpio
    /\ uart0 = NoUart0

\* The PCM side of the state while only the mailbox is in use.
PcmOff ==
    /\ drv = NoDrv
    /\ pcm = PcmReset
    /\ fsel = [p \in PcmPins |-> Input]
    /\ rxfifo = <<>>
    /\ txfifo = <<>>
    /\ wire = NoWire
    /\ hist = NoHist
    /\ periph = NoPeriph

\* ------------------------------------------------- registers (hardware)
\* HW.MBOX0.STATUS_FULL as the caller reads it: no room for a further word.
STATUS_FULL == Len(wfifo) >= FifoDepth
\* HW.MBOX0.STATUS_EMPTY: nothing to read in mailbox 0.
STATUS_EMPTY == Len(rfifo) = 0

\* HW.MBOX1.DATA = w. A write into a full FIFO is dropped by the hardware.
WriteData(w) == IF Len(wfifo) < FifoDepth THEN Append(wfifo, w) ELSE wfifo

\* The address space of the firmware: the bus address of the memory behind
\* the address v of the calling process.
VirtToBus(v) == <<(v[1] + virtOffset) % Half, v[2]>>

\* HW.MBOX0.DATA as read by the caller: the oldest word, which the read
\* removes.  What a read of the empty FIFO returns is not defined.
ReadData == IF rfifo # <<>> THEN {Head(rfifo)} ELSE {Zero, MaxU32}
AfterRead == IF rfifo # <<>> THEN Tail(rfifo) ELSE rfifo

Log(e) == <<acc[2], acc[3], e>>

\* ------------------------------------------------------------ mailbox.h
\* uint32_t wanted = chan | (intptr_t)addr;
WordOf(chan, addr) == BitOr32(U32(chan), addr)

\* The two parts of a mailbox word: its low 4 bits and its top 28 bits.
ChannelOf(w) == w[2] % 16
AddressOf(w) == <<w[1], w[2] - (w[2] % 16)>>

\* An object declared with mbox_property_struct(n), not yet initialised.
DeclareMbox(n, g) ==
    [n |-> n, buffer_size |-> g, code |-> g, tag |-> g, tag_buffer_size |-> g,
     response_length |-> Low31(g), has_response |-> g[1] \div 2^15,
     data |-> [i \in 0..(n - 1) |-> g], end |-> g]

\* Variant: the macro without the reset of the response flag.
PropertyFill_KeepFlag(m, tagid) ==
    [m EXCEPT !.buffer_size = U32(SizeofMbox(m.n)),
              !.code = U32(PROP_REQUEST),
              !.tag = U32(tagid),
              !.tag_buffer_size = U32(SizeofData(m.n)),
              !.response_length = Low31(U32(SizeofData(m.n))),
              !.end = Zero]

\* The assignments of the macro mbox_property_call(tagid, mbox).
PropertyFill(m, tagid) ==
    [m EXCEPT !.buffer_size = U32(SizeofMbox(m.n)),
              !.code = U32(PROP_REQUEST),
              !.tag = U32(tagid),
              !.tag_buffer_size = U32(SizeofData(m.n)),
              !.response_length = Low31(U32(SizeofData(m.n))),
              !.has_response = 0,
              !.end = Zero]

\* mbox_write, line 70: while (HW.MBOX0.STATUS_FULL);
mbox_write_wait ==
    /\ pc = "w_full"
    /\ acc' = Log(IF STATUS_FULL THEN "full=1" ELSE "full=0")
    /\ pc' = IF STATUS_FULL THEN "w_full" ELSE "w_data"
    /\ UNCHANGED <<loc, mbox, ret, wfifo, rfifo, virtOffset, noise, popped,
                   lastPush, fwAns>>
    /\ UNCHANGED <<conc, PcmVars, SysVars>>

\* mbox_write, line 71: HW.MBOX1.DATA = chan | (intptr_t)addr;
mbox_write_data ==
    /\ pc = "w_data"
    /\ wfifo' = WriteData(WordOf(loc.chan, loc.addr))
    /\ lastPush' = [word |-> WordOf(loc.chan, loc.addr), chan |-> loc.chan,
                    addr |-> loc.addr, prop |-> FALSE, buf |-> NoMbox]
    /\ acc' = Log("write")
    /\ pc' = "w_bar"
    /\ UNCHANGED <<loc, mbox, ret, rfifo, virtOffset, noise, popped, fwAns>>
    /\ UNCHANGED <<conc, PcmVars, SysVars>>

\* mbox_write, line 72: memory_barrier(); and the return
mbox_write_barrier ==
    /\ pc = "w_bar"
    /\ acc' = Log("barrier")
    /\ pc' = "done"
    /\ UNCHANGED <<loc, mbox, ret, wfifo, rfifo, virtOffset, noise, popped,
                   lastPush, fwAns>>
    /\ UNCHANGED <<conc, PcmVars, SysVars>>

\* mbox_read, line 76: memory_barrier();
mbox_read_barrier ==
    /\ pc = "r_bar"
    /\ acc' = Log("barrier")
    /\ pc' = "r_empty"
    /\ UNCHANGED <<loc, mbox, ret, wfifo, rfifo, virtOffset, noise, popped,
                   lastPush, fwAns>>
    /\ UNCHANGED <<conc, PcmVars, SysVars>>

\* mbox_read, line 77: while (HW.MBOX0.STATUS_EMPTY);
mbox_read_wait ==
    /\ pc = "r_empty"
    /\ acc' = Log(IF STATUS_EMPTY THEN "empty=1" ELSE "empty=0")
    /\ pc' = IF STATUS_EMPTY THEN "r_empty" ELSE "r_data"
    /\ UNCHANGED <<loc, mbox, ret, wfifo, rfifo, virtOffset, noise, popped,
                   lastPush, fwAns>>
    /\ UNCHANGED <<conc, PcmVars, SysVars>>

\* mbox_read, line 78: return HW.MBOX0.DATA;
mbox_read_data ==
    /\ pc = "r_data"
    /\ \E w \in ReadData :
          /\ ret' = w
          /\ popped' = Append(popped, w)
    /\ rfifo' = AfterRead
    /\ acc' = Log("read")
    /\ pc' = "done"
    /\ UNCHANGED <<loc, mbox, wfifo, virtOffset, noise, lastPush, fwAns>>
    /\ UNCHANGED <<conc, PcmVars, SysVars>>

\* Variant: the write is not held back by the full flag.
mbox_call_wait_full_Skip ==
    /\ pc = "c_full"
    /\ acc' = Log(IF STATUS_FULL THEN "full=1" ELSE "full=0")
    /\ pc' = "c_data"
    /\ UNCHANGED <<loc, mbox, ret, wfifo, rfifo, virtOffset, noise, popped,
                   lastPush, fwAns, conc, PcmVars, SysVars>>

\* mbox_call, line 84: while (HW.MBOX0.STATUS_FULL);
mbox_call_wait_full ==
    /\ pc = "c_full"
    /\ acc' = Log(IF STATUS_FULL THEN "full=1" ELSE "full=0")
    /\ pc' = IF STATUS_FULL THEN "c_full" ELSE "c_data"
    /\ UNCHANGED <<loc, mbox, ret, wfifo, rfifo, virtOffset, noise, popped,
                   lastPush, fwAns>>
    /\ UNCHANGED <<conc, PcmVars, SysVars>>

\* mbox_call, line 85: HW.MBOX1.DATA = wanted;
mbox_call_data ==
    /\ pc = "c_data"
    /\ wfifo' = WriteData(loc.wanted)
    /\ lastPush' = [word |-> loc.wanted, chan |-> loc.chan, addr |-> loc.addr,
                    prop |-> loc.fn \notin {"mbox_call"}, buf |-> mbox]
    /\ acc' = Log("write")
    /\ pc' = "c_bar"
    /\ loc' = [loc EXCEPT !.pushes = @ + 1]
    /\ UNCHANGED <<mbox, ret, rfifo, virtOffset, noise, popped, fwAns>>
    /\ UNCHANGED <<conc, PcmVars, SysVars>>

\* mbox_call, line 88: memory_barrier();
mbox_call_barrier ==
    /\ pc = "c_bar"
    /\ acc' = Log("barrier")
    /\ pc' = "c_empty"
    /\ UNCHANGED <<loc, mbox, ret, wfifo, rfifo, virtOffset, noise, popped,
                   lastPush, fwAns>>
    /\ UNCHANGED <<conc, PcmVars, SysVars>>

\* Variant: the wait for a response gives up on an empty FIFO.
mbox_call_wait_empty_GiveUp ==
    /\ pc = "c_empty"
    /\ acc' = Log(IF STATUS_EMPTY THEN "empty=1" ELSE "empty=0")
    /\ pc' = IF STATUS_EMPTY THEN "c_ret" ELSE "c_read"
    /\ UNCHANGED <<loc, mbox, ret, wfifo, rfifo, virtOffset, noise, popped,
                   lastPush, fwAns, conc, PcmVars, SysVars>>

\* mbox_call, line 89: while (HW.MBOX0.STATUS_EMPTY);
mbox_call_wait_empty ==
    /\ pc = "c_empty"
    /\ acc' = Log(IF STATUS_EMPTY THEN "empty=1" ELSE "empty=0")
    /\ pc' = IF STATUS_EMPTY THEN "c_empty" ELSE "c_read"
    /\ UNCHANGED <<loc, mbox, ret, wfifo, rfifo, virtOffset, noise, popped,
                   lastPush, fwAns>>
    /\ UNCHANGED <<conc, PcmVars, SysVars>>

\* Variants of the loop condition: one that compares the channel only, and
\* one that takes the first word that arrives.
KeepWaiting_ChannelOnly(word, wanted) == ChannelOf(word) # ChannelOf(wanted)
KeepWaiting_FirstWord(word, wanted) == FALSE

\* The loop condition of mbox_call: go round again on this word?
KeepWaiting(word, wanted) == word # wanted

\* mbox_call, line 90: } while (HW.MBOX0.DATA != wanted);
mbox_call_read ==
    /\ pc = "c_read"
    /\ \E w \in ReadData :
          /\ popped' = Append(popped, w)
          /\ pc' = IF KeepWaiting(w, loc.wanted) THEN "c_bar" ELSE "c_ret"
          /\ loc' = [loc EXCEPT !.matched = @ + (IF w = loc.wanted THEN 1 ELSE 0)]
    /\ rfifo' = AfterRead
    /\ acc' = Log("read")
    /\ UNCHANGED <<mbox, ret, wfifo, virtOffset, noise, lastPush, fwAns>>
    /\ UNCHANGED <<conc, PcmVars, SysVars>>

\* ------------------------------------------------- calls of the functions
\* A call of mbox_write(chan, addr).
call_mbox_write ==
    /\ pc = "idle"
    /\ \E chan \in RawChans, addr \in RawAddrs :
          loc' = [NoLoc EXCEPT !.fn = "mbox_write", !.chan = chan, !.addr = addr]
    /\ pc' = "w_full"
    /\ UNCHANGED <<mbox, ret, wfifo, rfifo, virtOffset, noise, popped, acc,
                   lastPush, fwAns>>
    /\ UNCHANGED <<conc, PcmVars, SysVars>>

\* A call of mbox_read().
call_mbox_read ==
    /\ pc = "idle"
    /\ loc' = [NoLoc EXCEPT !.fn = "mbox_read"]
    /\ pc' = "r_bar"
    /\ UNCHANGED <<mbox, ret, wfifo, rfifo, virtOffset, noise, popped, acc,
                   lastPush, fwAns>>
    /\ UNCHANGED <<conc, PcmVars, SysVars>>

\* A call of mbox_call(chan, addr), up to line 82.
EnterCall(chans, addrs) ==
    /\ pc = "idle"
    /\ \E chan \in chans, addr \in addrs :
          loc' = [NoLoc EXCEPT !.fn = "mbox_call", !.chan = chan, !.addr = addr,
                               !.wanted = WordOf(chan, addr)]
    /\ pc' = "c_full"
    /\ UNCHANGED <<mbox, ret, wfifo, rfifo, virtOffset, noise, popped, acc,
                   lastPush, fwAns>>
    /\ UNCHANGED <<conc, PcmVars, SysVars>>

call_mbox_call == EnterCall(RawChans, RawAddrs)

\* mbox_call returns to the caller of the raw function.
mbox_call_return ==
    /\ pc = "c_ret"
    /\ loc.fn = "mbox_call"
    /\ pc' = "done"
    /\ UNCHANGED <<loc, mbox, ret, wfifo, rfifo, virtOffset, noise, popped, acc,
                   lastPush, fwAns>>
    /\ UNCHANGED <<conc, PcmVars, SysVars>>

\* The macro mbox_property_call(tagid, mbox), lines 102-109, up to the first
\* statement of the mbox_call it ends with.
mbox_property_call ==
    /\ pc = "p_call"
    /\ mbox' = PropertyFill(mbox, loc.tagid)
    /\ loc' = [loc EXCEPT !.chan = MBOX_CH_PROPVC,
                          !.wanted = WordOf(MBOX_CH_PROPVC, loc.addr),
                          !.dirty = (mbox.code # Zero /\ mbox.has_response = 1)]
    /\ popped' = <<>>
    /\ pc' = "c_full"
    /\ UNCHANGED <<ret, wfifo, rfifo, virtOffset, noise, acc, lastPush, fwAns>>
    /\ UNCHANGED <<conc, PcmVars, SysVars>>

\* A user of the macros: declares mbox_property_struct(n) for some n and
\* calls mbox_property_call(MBOX_TAG_GET_FIRMWARE, mbox).
call_mbox_property ==
    /\ pc = "idle"
    /\ \E n \in 1..MaxPayload, g \in Garbage, a \in StackAddrs(AlignofMbox) :
          /\ loc' = [NoLoc EXCEPT !.fn = "mbox_property_call", !.addr = a,
                                  !.callno = 1, !.tagid = MBOX_TAG_GET_FIRMWARE]
          /\ mbox' = DeclareMbox(n, g)
    /\ pc' = "p_call"
    /\ UNCHANGED <<ret, wfifo, rfifo, virtOffset, noise, popped, acc, lastPush, fwAns>>
    /\ UNCHANGED <<conc, PcmVars, SysVars>>

\* The statement after the macro: the user's function returns.
mbox_property_return ==
    /\ pc = "c_ret"
    /\ loc.fn = "mbox_property_call"
    /\ pc' = "done"
    /\ UNCHANGED <<loc, mbox, ret, wfifo, rfifo, virtOffset, noise, popped, acc,
                   lastPush, fwAns>>
    /\ UNCHANGED <<conc, PcmVars, SysVars>>

\* mbox_set_clock, lines 138-140.
call_mbox_set_clock ==
    /\ pc = "idle"
    /\ \E clock \in ClockIds, freq \in Freqs, g \in Garbage,
          a \in StackAddrs(AlignofMbox) :
          /\ loc' = [NoLoc EXCEPT !.fn = "mbox_set_clock", !.clock = clock,
                                  !.freq = freq, !.addr = a, !.callno = 1,
                                  !.tagid = MBOX_TAG_SET_CLOCK_STATE]
          /\ mbox' = [DeclareMbox(3, g) EXCEPT !.data[0] = U32(clock),
                                               !.data[1] = U32(1)]
    /\ pc' = "p_call"
    /\ UNCHANGED <<ret, wfifo, rfifo, virtOffset, noise, popped, acc, lastPush, fwAns>>
    /\ UNCHANGED <<conc, PcmVars, SysVars>>

\* Variant: the third value word of the second request is left as it is.
mbox_set_clock_next_NoZero ==
    /\ pc = "c_ret"
    /\ loc.fn = "mbox_set_clock"
    /\ IF loc.callno = 1
       THEN /\ mbox' = [mbox EXCEPT !.data[0] = U32(loc.clock),
                                    !.data[1] = loc.freq]
            /\ loc' = [loc EXCEPT !.callno = 2, !.tagid = MBOX_TAG_SET_CLOCK_RATE]
            /\ pc' = "p_call"
       ELSE /\ pc' = "done"
            /\ UNCHANGED <<mbox, loc>>
    /\ UNCHANGED <<ret, wfifo, rfifo, virtOffset, noise, popped, acc, lastPush, fwAns>>
    /\ UNCHANGED <<conc, PcmVars, SysVars>>

\* mbox_set_clock, lines 143-145, and the return after the second call.
mbox_set_clock_next ==
    /\ pc = "c_ret"
    /\ loc.fn = "mbox_set_clock"
    /\ IF loc.callno = 1
       THEN /\ mbox' = [mbox EXCEPT !.data[0] = U32(loc.clock),
                                    !.data[1] = loc.freq, !.data[2] = Zero]
            /\ loc' = [loc EXCEPT !.callno = 2, !.tagid = MBOX_TAG_SET_CLOCK_RATE]
            /\ pc' = "p_call"
       ELSE /\ pc' = "done"
            /\ UNCHANGED <<mbox, loc>>
    /\ UNCHANGED <<ret, wfifo, rfifo, virtOffset, noise, popped, acc, lastPush, fwAns>>
    /\ UNCHANGED <<conc, PcmVars, SysVars>>

\* mbox_get_clock, lines 150-152.
call_mbox_get_clock ==
    /\ pc = "idle"
    /\ \E clock \in ClockIds, g \in Garbage, a \in StackAddrs(AlignofMbox) :
          /\ loc' = [NoLoc EXCEPT !.fn = "mbox_get_clock", !.clock = clock,
                                  !.addr = a, !.callno = 1,
                                  !.tagid = MBOX_TAG_GET_CLOCK_STATE]
          /\ mbox' = [DeclareMbox(2, g) EXCEPT !.data[0] = U32(clock),
                                               !.data[1] = Zero]
    /\ pc' = "p_call"
    /\ UNCHANGED <<ret, wfifo, rfifo, virtOffset, noise, popped, acc, lastPush, fwAns>>
    /\ UNCHANGED <<conc, PcmVars, SysVars>>

\* Variants: the first value word; and a result that depends on the status.
ReturnedValue_First(m) == m.data[0]
ReturnedValue_Checked(m) ==
    IF m.code = PROP_RESPONSE_ERROR THEN Zero ELSE m.data[1]

\* The value a clock query returns from its buffer: return mbox.data[1];
ReturnedValue(m) == m.data[1]

\* Variant: the rate is asked for whatever the state.
mbox_get_clock_next_Always ==
    /\ pc = "c_ret"
    /\ loc.fn = "mbox_get_clock"
    /\ IF loc.callno = 1
       THEN /\ mbox' = [mbox EXCEPT !.data[0] = U32(loc.clock),
                                    !.data[1] = Zero]
            /\ loc' = [loc EXCEPT !.callno = 2, !.state = mbox.data[1],
                                  !.tagid = MBOX_TAG_GET_CLOCK_RATE]
            /\ pc' = "p_call"
            /\ UNCHANGED ret
       ELSE /\ ret' = mbox.data[1]
            /\ pc' = "done"
            /\ UNCHANGED <<mbox, loc>>
    /\ UNCHANGED <<wfifo, rfifo, virtOffset, noise, popped, acc, lastPush, fwAns>>
    /\ UNCHANGED <<conc, PcmVars, SysVars>>

\* mbox_get_clock, lines 154-159.
mbox_get_clock_next ==
    /\ pc = "c_ret"
    /\ loc.fn = "mbox_get_clock"
    /\ IF loc.callno = 1
       THEN IF mbox.data[1] = Zero
            THEN /\ ret' = Zero
                 /\ pc' = "done"
                 /\ loc' = [loc EXCEPT !.state = mbox.data[1]]
                 /\ UNCHANGED mbox
            ELSE /\ mbox' = [mbox EXCEPT !.data[0] = U32(loc.clock),
                                         !.data[1] = Zero]
                 /\ loc' = [loc EXCEPT !.callno = 2, !.state = mbox.data[1],
                                       !.tagid = MBOX_TAG_GET_CLOCK_RATE]
                 /\ pc' = "p_call"
                 /\ UNCHANGED ret
       ELSE /\ ret' = ReturnedValue(mbox)
            /\ pc' = "done"
            /\ UNCHANGED <<mbox, loc>>
    /\ UNCHANGED <<wfifo, rfifo, virtOffset, noise, popped, acc, lastPush, fwAns>>
    /\ UNCHANGED <<conc, PcmVars, SysVars>>

\* mbox_get_clock_measured, lines 163-165.
call_mbox_get_clock_measured ==
    /\ pc = "idle"
    /\ \E clock \in ClockIds, g \in Garbage, a \in StackAddrs(AlignofMbox) :
          /\ loc' = [NoLoc EXCEPT !.fn = "mbox_get_clock_measured",
                                  !.clock = clock, !.addr = a, !.callno = 1,
                                  !.tagid = MBOX_TAG_GET_CLOCK_RATE_MEASURED]
          /\ mbox' = [DeclareMbox(2, g) EXCEPT !.data[0] = U32(clock),
                                               !.data[1] = Zero]
    /\ pc' = "p_call"
    /\ UNCHANGED <<ret, wfifo, rfifo, virtOffset, noise, popped, acc, lastPush, fwAns>>
    /\ UNCHANGED <<conc, PcmVars, SysVars>>

\* mbox_get_clock_measured, line 167.
mbox_get_clock_measured_next ==
    /\ pc = "c_ret"
    /\ loc.fn = "mbox_get_clock_measured"
    /\ ret' = ReturnedValue(mbox)
    /\ pc' = "done"
    /\ UNCHANGED <<loc, mbox, wfifo, rfifo, virtOffset, noise, popped, acc,
                   lastPush, fwAns>>
    /\ UNCHANGED <<conc, PcmVars, SysVars>>

\* The function has returned; its locals are gone.
Return ==
    /\ pc = "done"
    /\ pc' = "idle"
    /\ loc' = NoLoc
    /\ mbox' = NoMbox
    /\ ret' = Zero
    /\ popped' = <<>>
    /\ acc' = NoAcc
    /\ lastPush' = NoPush
    /\ fwAns' = NoAns
    /\ UNCHANGED <<wfifo, rfifo, virtOffset, noise>>
    /\ UNCHANGED <<conc, PcmVars, SysVars>>

\* ---------------------------------------------------------- the firmware
\* Words of other users of the mailbox: another channel with the address of
\* a property buffer, and the property channel with another address.
NoiseWords == {WordOf(0, a) : a \in StackAddrs(AlignofMbox)}
              \cup {WordOf(MBOX_CH_PROPVC, <<2^5, 0>>)}

\* Does the request word w make the firmware work on the caller's buffer?
HitsBuffer(w) ==
    /\ mbox.n > 0
    /\ ChannelOf(w) = MBOX_CH_PROPVC
    /\ AddressOf(w) = VirtToBus(loc.addr)

\* The value word the firmware answers in: data[1], or data[0] in a buffer of
\* one word.
ValueIndex(m) == IF m.n > 1 THEN 1 ELSE 0

\* The firmware takes the oldest request, answers it in place when the
\* address leads it to the buffer, and sends the word back.
FwServe ==
    /\ wfifo # <<>>
    /\ Len(rfifo) < FifoDepth
    /\ wfifo' = Tail(wfifo)
    /\ rfifo' = Append(rfifo, Head(wfifo))
    /\ IF HitsBuffer(Head(wfifo))
       THEN \E code \in {PROP_RESPONSE_SUCCESS, PROP_RESPONSE_ERROR},
               v \in FwVals \cup {mbox.data[ValueIndex(mbox)]} :
               /\ mbox' = [mbox EXCEPT !.code = code,
                                       !.has_response = 1,
                                       !.response_length = U32(WordSize),
                                       !.data[ValueIndex(mbox)] = v]
               /\ fwAns' = [tag |-> mbox.tag, code |-> code, value |-> v,
                            any |-> TRUE]
       ELSE UNCHANGED <<mbox, fwAns>>
    /\ UNCHANGED <<pc, loc, ret, virtOffset, noise, popped, acc, lastPush>>
    /\ UNCHANGED <<conc, PcmVars, SysVars>>

\* A response for another user of the mailbox arrives.
FwOther ==
    /\ noise < MaxNoise
    /\ Len(rfifo) < FifoDepth
    /\ \E w \in NoiseWords : rfifo' = Append(rfifo, w)
    /\ noise' = noise + 1
    /\ UNCHANGED <<pc, loc, mbox, ret, wfifo, virtOffset, popped, acc, lastPush, fwAns>>
    /\ UNCHANGED <<conc, PcmVars, SysVars>>

\* ------------------------------------------------------ the specification
Init ==
    /\ pc = "idle"
    /\ loc = NoLoc
    /\ mbox = NoMbox
    /\ ret = Zero
    /\ wfifo = <<>>
    /\ rfifo = <<>>
    /\ virtOffset \in {0, 2^12}
    /\ noise = 0
    /\ popped = <<>>
    /\ acc = NoAcc
    /\ lastPush = NoPush
    /\ fwAns = NoAns
    /\ conc = NoConc
    /\ PcmOff
    /\ SysOff

Caller ==
    \/ call_mbox_write \/ mbox_write_wait \/ mbox_write_data \/ mbox_write_barrier
    \/ call_mbox_read \/ mbox_read_barrier \/ mbox_read_wait \/ mbox_read_data
    \/ call_mbox_call \/ mbox_call_wait_full \/ mbox_call_data
    \/ mbox_call_barrier \/ mbox_call_wait_empty \/ mbox_call_read
    \/ mbox_call_return
    \/ call_mbox_property \/ mbox_property_call \/ mbox_property_return
    \/ call_mbox_set_clock \/ mbox_set_clock_next
    \/ call_mbox_get_clock \/ mbox_get_clock_next
    \/ call_mbox_get_clock_measured \/ mbox_get_clock_measured_next
    \/ Return

Next == Caller \/ FwServe \/ FwOther

Spec == Init /\ [][Next]_vars

\* ------------------------------------------------ the raw functions alone
\* mbox_write, mbox_read and mbox_call against a firmware that keeps serving.
RawSteps ==
    \/ mbox_write_wait \/ mbox_write_data \/ mbox_write_barrier
    \/ mbox_read_barrier \/ mbox_read_wait \/ mbox_read_data
    \/ mbox_call_wait_full \/ mbox_call_data \/ mbox_call_barrier
    \/ mbox_call_wait_empty \/ mbox_call_read \/ mbox_call_return

NextRaw ==
    \/ call_mbox_write \/ call_mbox_read \/ call_mbox_call
    \/ RawSteps
    \/ Return \/ FwServe \/ FwOther

\* The thread of the caller keeps running, and the firmware serves a request
\* whenever it can.
SpecFair == Init /\ [][NextRaw]_vars /\ WF_vars(RawSteps) /\ WF_vars(FwServe)

\* ------------------------------------------- every channel, many addresses
\* Buffer addresses of a caller of mbox_call: low, high, on the stack, and
\* one that is not 16-byte aligned.
WordAddrs == {<<0, 16>>, <<Half - 1, Half - 16>>, <<2^15 + 2^14, 32>>, <<2^4, 20>>}

call_mbox_call_any == EnterCall(0..15, WordAddrs)

NextWord ==
    \/ call_mbox_call_any \/ mbox_call_wait_full \/ mbox_call_data
    \/ mbox_call_barrier \/ mbox_call_wait_empty \/ mbox_call_read
    \/ mbox_call_return
    \/ call_mbox_property \/ mbox_property_call \/ mbox_property_return
    \/ Return \/ FwServe

SpecWord == Init /\ [][NextWord]_vars

\* ------------------------------------------ several callers of mbox_call
Callers == 1..NCallers
\* Caller c calls mbox_call(c, addr_c): each caller has its own channel and
\* its own buffer.
ConcAddr(c) == <<2^4, 16 * c>>

MainVars == <<pc, loc, mbox, ret, noise, popped, acc, lastPush, fwAns,
              virtOffset>>

InitConc ==
    /\ pc = "idle"
    /\ loc = NoLoc
    /\ mbox = NoMbox
    /\ ret = Zero
    /\ wfifo = <<>>
    /\ rfifo = <<>>
    /\ virtOffset \in {0, 2^12}
    /\ noise = 0
    /\ popped = <<>>
    /\ acc = NoAcc
    /\ lastPush = NoPush
    /\ fwAns = NoAns
    /\ conc = [pc |-> [c \in Callers |-> "idle"],
               wanted |-> [c \in Callers |-> Zero],
               popped |-> [c \in Callers |-> <<>>],
               pending |-> {}]
    /\ PcmOff
    /\ SysOff

conc_call(c) ==
    /\ conc.pc[c] = "idle"
    /\ conc' = [conc EXCEPT !.pc[c] = "c_full",
                            !.wanted[c] = WordOf(c, ConcAddr(c))]
    /\ UNCHANGED <<PcmVars, SysVars, MainVars, wfifo, rfifo>>

\* line 84
conc_wait_full(c) ==
    /\ conc.pc[c] = "c_full"
    /\ conc' = [conc EXCEPT !.pc[c] = IF STATUS_FULL THEN "c_full" ELSE "c_data"]
    /\ UNCHANGED <<PcmVars, SysVars, MainVars, wfifo, rfifo>>

\* line 85
conc_data(c) ==
    /\ conc.pc[c] = "c_data"
    /\ wfifo' = WriteData(conc.wanted[c])
    /\ conc' = [conc EXCEPT !.pc[c] = "c_bar"]
    /\ UNCHANGED <<PcmVars, SysVars, MainVars, rfifo>>

\* line 88
conc_barrier(c) ==
    /\ conc.pc[c] = "c_bar"
    /\ conc' = [conc EXCEPT !.pc[c] = "c_empty"]
    /\ UNCHANGED <<PcmVars, SysVars, MainVars, wfifo, rfifo>>

\* line 89
conc_wait_empty(c) ==
    /\ conc.pc[c] = "c_empty"
    /\ conc' = [conc EXCEPT !.pc[c] = IF STATUS_EMPTY THEN "c_empty" ELSE "c_read"]
    /\ UNCHANGED <<PcmVars, SysVars, MainVars, wfifo, rfifo>>

\* line 90
conc_read(c) ==
    /\ conc.pc[c] = "c_read"
    /\ \E w \in ReadData :
          conc' = [conc EXCEPT
                     !.popped[c] = Append(@, w),
                     !.pc[c] = IF KeepWaiting(w, conc.wanted[c])
                               THEN "c_bar" ELSE "done"]
    /\ rfifo' = AfterRead
    /\ UNCHANGED <<PcmVars, SysVars, MainVars, wfifo>>

\* The firmware takes a request from mailbox 1 ...
FwTake ==
    /\ wfifo # <<>>
    /\ wfifo' = Tail(wfifo)
    /\ conc' = [conc EXCEPT !.pending = @ \cup {Head(wfifo)}]
    /\ UNCHANGED <<PcmVars, SysVars, MainVars, rfifo>>

\* ... and answers the requests it holds one by one, in any order.
FwRespond ==
    /\ Len(rfifo) < FifoDepth
    /\ \E w \in conc.pending :
          /\ rfifo' = Append(rfifo, w)
          /\ conc' = [conc EXCEPT !.pending = @ \ {w}]
    /\ UNCHANGED <<PcmVars, SysVars, MainVars, wfifo>>

NextConc ==
    \/ \E c \in Callers :
          \/ conc_call(c) \/ conc_wait_full(c) \/ conc_data(c)
          \/ conc_barrier(c) \/ conc_wait_empty(c) \/ conc_read(c)
    \/ FwTake \/ FwRespond

SpecConc == InitConc /\ [][NextConc]_vars

\* ================================================================ spisl.h
\* ------------------------------------------------ PCM registers (hardware)
\* HW.PCM.CS.B.RXD: the receive FIFO holds at least one byte.
RXD == rxfifo # <<>>
\* HW.PCM.CS.B.TXD: the transmit FIFO can take at least one byte.
TXD == Len(txfifo) < PcmFifoDepth

\* The external interface is attached and clocked: all four pins are routed
\* to the PCM block, which is enabled and whose clock is not gated.
Attached == \A p \in PcmPins : fsel[p] = Alt2
Clocked == pcm.CS["EN"] = 1 /\ pcm.MODE["CLK_DIS"] = 0

\* What a read of register r returns: SYNC reads as the echoed value.
ReadReg(r) ==
    IF r = "CS" THEN [pcm.CS EXCEPT !["SYNC"] = pcm.sync] ELSE pcm[r]

\* A write of the value v to register r.  TXCLR and RXCLR of CS clear the
\* FIFOs and read back as 0.
WriteReg(r, v) ==
    IF r = "CS"
    THEN /\ pcm' = [pcm EXCEPT !.CS = [v EXCEPT !["TXCLR"] = 0, !["RXCLR"] = 0]]
         /\ rxfifo' = IF v["RXCLR"] = 1 THEN <<>> ELSE rxfifo
         /\ txfifo' = IF v["TXCLR"] = 1 THEN <<>> ELSE txfifo
    ELSE /\ pcm' = [pcm EXCEPT ![r] = v]
         /\ UNCHANGED <<rxfifo, txfifo>>

\* The value written to SYNC is echoed in the register two PCM clocks later.
PcmSyncEcho ==
    /\ pcm.sync # pcm.CS["SYNC"]
    /\ pcm' = [pcm EXCEPT !.sync = pcm.CS["SYNC"]]
    /\ UNCHANGED <<drv, fsel, rxfifo, txfifo, wire, hist, periph>>
    /\ UNCHANGED <<MainVars, wfifo, rfifo, conc, SysVars>>

\* ------------------------------------------------------------ hw.h: gpio
\* gpio_configure: the three function-select bits of the pin are replaced.
gpio_configure(gpio, function) == [fsel EXCEPT ![gpio] = function % 8]

\* ------------------------------------------------------------ spisl_init
\* One statement of spisl_init: what it does (op), to which register (reg)
\* and field (fld), with which value (val), and the name it has in the log.
Ins(op, reg, fld, val, ev) ==
    [op |-> op, reg |-> reg, fld |-> fld, val |-> val, ev |-> ev]

\* Lines 123..149: detach the pins, empty the FIFO, disable the module, set
\* the transmission parameters.
code_reset ==
    << Ins("gpio", "FSEL", 28, Input, "gpio28=Input"),
       Ins("gpio", "FSEL", 29, Input, "gpio29=Input"),
       Ins("gpio", "FSEL", 30, Input, "gpio30=Input"),
       Ins("gpio", "FSEL", 31, Input, "gpio31=Input"),
       Ins("barrier", "", "", 0, "barrier"),
       Ins("drain", "CS", "RXD", 0, "drained"),
       Ins("field", "CS", "EN", 0, "CS.EN=0"),
       Ins("delay", "", "", ST_1ms, "delay 1ms"),
       Ins("word", "RXC", "U", 0, "RXC=0"),
       Ins("word", "TXC", "U", 0, "TXC=0"),
       Ins("word", "INTEN", "U", 0, "INTEN=0"),
       Ins("word", "INTSTC", "U", 15, "INTSTC=15"),
       Ins("word", "GRAY", "U", 0, "GRAY=0"),
       Ins("field", "RXC", "CH1WEX", 0, "RXC.CH1WEX=0"),
       Ins("field", "RXC", "CH1POS", 0, "RXC.CH1POS=0"),
       Ins("field", "RXC", "CH1WID", 0, "RXC.CH1WID=0"),
       Ins("field", "RXC", "CH1EN", 1, "RXC.CH1EN=1"),
       Ins("field", "TXC", "CH1WEX", 0, "TXC.CH1WEX=0"),
       Ins("field", "TXC", "CH1POS", 0, "TXC.CH1POS=0"),
       Ins("field", "TXC", "CH1WID", 0, "TXC.CH1WID=0"),
       Ins("field", "TXC", "CH1EN", 1, "TXC.CH1EN=1") >>
\* Lines 152, 153: the PCM clock of the clock manager.
code_clock ==
    << Ins("struct", "CM_DIV", "B", pcm_cm_div, "CM.DIV"),
       Ins("struct", "CM_CTL", "B", pcm_cm_ctl, "CM.CTL") >>
\* Lines 154..156: master mode, clock running, module enabled.
code_master ==
    << Ins("struct", "MODE", "B", mode_master, "MODE=master"),
       Ins("field", "MODE", "CLK_DIS", 0, "MODE.CLK_DIS=0"),
       Ins("struct", "CS", "B", init_cs, "CS=init_cs") >>
\* Lines 158..160: the SYNC handshake.
code_handshake ==
    << Ins("await", "CS", "SYNC", 1, "SYNC seen 1"),
       Ins("field", "CS", "SYNC", 0, "CS.SYNC=0"),
       Ins("await", "CS", "SYNC", 0, "SYNC seen 0") >>
\* Lines 163, 164: slave mode, clock gated.
code_slave ==
    << Ins("field", "MODE", "CLK_DIS", 1, "MODE.CLK_DIS=1"),
       Ins("struct", "MODE", "B", mode_slave, "MODE=slave") >>
\* Lines 166..175: attach the pins between two barriers, start the clock.
code_attach ==
    << Ins("barrier", "", "", 0, "barrier"),
       Ins("gpio", "FSEL", 28, Alt2, "gpio28=Alt2"),
       Ins("gpio", "FSEL", 29, Alt2, "gpio29=Alt2"),
       Ins("gpio", "FSEL", 30, Alt2, "gpio30=Alt2"),
       Ins("gpio", "FSEL", 31, Alt2, "gpio31=Alt2"),
       Ins("barrier", "", "", 0, "barrier"),
       Ins("field", "MODE", "CLK_DIS", 0, "MODE.CLK_DIS=0"),
       Ins("barrier", "", "", 0, "barrier") >>

\* Variant: the clock manager is programmed after the master configuration.
spisl_init_code_ClockLate ==
    code_reset \o code_master \o code_clock \o code_handshake \o code_slave
        \o code_attach
\* Variant: the slave configuration is written without the handshake.
spisl_init_code_NoHandshake ==
    code_reset \o code_clock \o code_master \o code_slave \o code_attach
\* Variant: the pins are attached before the slave configuration is written.
spisl_init_code_AttachEarly ==
    code_reset \o code_clock \o code_master \o code_handshake \o code_attach
        \o code_slave

\* Variant: the transmission parameters are set without the settle delay.
spisl_init_code_NoSettle ==
    SubSeq(code_reset, 1, 7) \o SubSeq(code_reset, 9, Len(code_reset))
        \o code_clock \o code_master \o code_handshake \o code_slave
        \o code_attach
\* Variant: RXC and TXC are not zeroed before their fields are set.
spisl_init_code_KeepChannels ==
    SubSeq(code_reset, 1, 8) \o SubSeq(code_reset, 11, Len(code_reset))
        \o code_clock \o code_master \o code_handshake \o code_slave
        \o code_attach

\* The body of spisl_init, statement by statement.
spisl_init_code ==
    code_reset \o code_clock \o code_master \o code_handshake \o code_slave
        \o code_attach

\* The register value that the 32-bit word v stands for.
WordOf32(r, v) ==
    IF RegFields[r] = {"U"} THEN [U |-> v]
    ELSE [f \in RegFields[r] |-> IF v = 0 THEN 0 ELSE pcm[r][f]]

MboxVars == <<MainVars, wfifo, rfifo, conc, SysVars>>
AddLog(e) == [hist EXCEPT !.log = Append(@, e)]

call_spisl_init ==
    /\ drv.fn = "none"
    /\ drv' = [NoDrv EXCEPT !.fn = "spisl_init", !.at = 1]
    /\ hist' = NoHist
    /\ UNCHANGED <<pcm, fsel, rxfifo, txfifo, wire, periph, MboxVars>>

\* A statement of spisl_init that is neither a loop nor a wait.
init_step ==
    /\ drv.fn = "spisl_init"
    /\ drv.at <= Len(spisl_init_code)
    /\ LET ins == spisl_init_code[drv.at] IN
        /\ ins.op \in {"gpio", "barrier", "delay", "field", "word", "struct"}
        /\ CASE ins.op = "gpio" ->
                  /\ fsel' = gpio_configure(ins.fld, ins.val)
                  /\ UNCHANGED <<pcm, rxfifo, txfifo>>
             [] ins.op \in {"barrier", "delay"} ->
                  UNCHANGED <<fsel, pcm, rxfifo, txfifo>>
             [] ins.op = "field" ->
                  /\ WriteReg(ins.reg,
                              [ReadReg(ins.reg) EXCEPT ![ins.fld] = ins.val])
                  /\ UNCHANGED fsel
             [] ins.op = "word" ->
                  /\ WriteReg(ins.reg, WordOf32(ins.reg, ins.val))
                  /\ UNCHANGED fsel
             [] ins.op = "struct" ->
                  /\ WriteReg(ins.reg, ins.val)
                  /\ UNCHANGED fsel
        /\ hist' = AddLog(ins.ev)
    /\ drv' = [drv EXCEPT !.at = @ + 1]
    /\ UNCHANGED <<wire, periph, MboxVars>>

\* Line 128: while (HW.PCM.CS.B.RXD) (void)HW.PCM.FIFO;
init_drain ==
    /\ drv.fn = "spisl_init"
    /\ drv.at <= Len(spisl_init_code)
    /\ LET ins == spisl_init_code[drv.at] IN
        /\ ins.op = "drain"
        /\ IF RXD
           THEN /\ rxfifo' = Tail(rxfifo)
                /\ hist' = [hist EXCEPT !.drained = Append(@, Head(rxfifo))]
                /\ UNCHANGED drv
           ELSE /\ hist' = AddLog(ins.ev)
                /\ drv' = [drv EXCEPT !.at = @ + 1]
                /\ UNCHANGED rxfifo
    /\ UNCHANGED <<pcm, fsel, txfifo, wire, periph, MboxVars>>

\* Lines 158, 160: while (!HW.PCM.CS.B.SYNC); and while (HW.PCM.CS.B.SYNC);
init_await ==
    /\ drv.fn = "spisl_init"
    /\ drv.at <= Len(spisl_init_code)
    /\ LET ins == spisl_init_code[drv.at] IN
        /\ ins.op = "await"
        /\ ReadReg(ins.reg)[ins.fld] = ins.val
        /\ hist' = AddLog(ins.ev)
    /\ drv' = [drv EXCEPT !.at = @ + 1]
    /\ UNCHANGED <<pcm, fsel, rxfifo, txfifo, wire, periph, MboxVars>>

\* Line 176: the end of spisl_init.
init_return ==
    /\ drv.fn = "spisl_init"
    /\ drv.at = Len(spisl_init_code) + 1
    /\ drv' = NoDrv
    /\ hist' = AddLog("return")
    /\ UNCHANGED <<pcm, fsel, rxfifo, txfifo, wire, periph, MboxVars>>

\* The master clocks one byte b while the interface is attached: b enters the
\* receive FIFO when there is room, the oldest byte to transmit leaves.
ShiftIn(b) ==
    rxfifo' = IF Len(rxfifo) < PcmFifoDepth THEN Append(rxfifo, b) ELSE rxfifo
ShiftOut == txfifo' = IF txfifo = <<>> THEN txfifo ELSE Tail(txfifo)

\* A byte that arrives while no function of the driver expects one.
MasterStray ==
    /\ Attached /\ Clocked
    /\ ShiftIn(Marker)
    /\ ShiftOut
    /\ UNCHANGED <<drv, pcm, fsel, wire, hist, periph, MboxVars>>

NextInit ==
    \/ call_spisl_init \/ init_step \/ init_drain \/ init_await \/ init_return
    \/ PcmSyncEcho \/ MasterStray

\* spisl_init is called with the PCM block after reset, or as another use
\* has left it, the pins detached or attached.
InitPcm ==
    /\ pc = "idle" /\ loc = NoLoc /\ mbox = NoMbox /\ ret = Zero
    /\ wfifo = <<>> /\ rfifo = <<>> /\ virtOffset = 0 /\ noise = 0
    /\ popped = <<>> /\ acc = NoAcc /\ lastPush = NoPush /\ fwAns = NoAns
    /\ conc = NoConc
    /\ drv = NoDrv
    /\ pcm \in {PcmReset, PcmUsed}
    /\ fsel \in {[p \in PcmPins |-> Input], [p \in PcmPins |-> Alt2]}
    /\ rxfifo = <<>>
    /\ txfifo = <<>>
    /\ wire = NoWire
    /\ hist = NoHist
    /\ periph = NoPeriph
    /\ SysOff

SpecInit == InitPcm /\ [][NextInit]_vars

\* ------------------------------------------- spisl_read and spisl_write
\* The registers as spisl_init leaves them.
PcmReady ==
    [PcmReset EXCEPT
        !.CS = [init_cs EXCEPT !["TXCLR"] = 0, !["RXCLR"] = 0, !["SYNC"] = 0],
        !.MODE = [mode_slave EXCEPT !["CLK_DIS"] = 0],
        !.RXC = [@ EXCEPT !["CH1EN"] = 1],
        !.TXC = [@ EXCEPT !["CH1EN"] = 1],
        !.INTSTC = [U |-> 15],
        !.CM_DIV = pcm_cm_div,
        !.CM_CTL = pcm_cm_ctl]

\* Bytes the master sends, and bytes the user gives to spisl_write.
WireBytes == {Marker, Sentinel}
WriteBytes == {Marker}

\* The number of marker bytes in a row that end a sequence of reads, when n
\* ended it before byte b was read; counted up to SyncCount + 1.
Run(n, b) == IF b # Marker THEN 0
             ELSE IF n > SyncCount THEN n ELSE n + 1

\* uint8_t x = HW.PCM.FIFO: the low 8 bits of the FIFO word.
ToUint8(w) == w % 256

\* The driver after a return with value v: back in spisl_synchronize, at
\* the statement after the call, or back in the user's code.
ReturnValue(v) ==
    IF drv.back = 0 THEN [NoDrv EXCEPT !.ret = v]
    ELSE [drv EXCEPT !.fn = "spisl_synchronize", !.at = drv.back, !.back = 0,
                     !.incoming = v]
ReturnVoid ==
    IF drv.back = 0 THEN NoDrv
    ELSE [drv EXCEPT !.fn = "spisl_synchronize", !.at = drv.back, !.back = 0]

call_spisl_read ==
    /\ drv.fn = "none"
    /\ drv' = [NoDrv EXCEPT !.fn = "spisl_read", !.at = 192]
    /\ UNCHANGED <<pcm, fsel, rxfifo, txfifo, wire, hist, periph, MboxVars>>

\* Line 192: while (!HW.PCM.CS.B.RXD);
read_wait ==
    /\ drv.fn = "spisl_read" /\ drv.at = 192
    /\ RXD
    /\ drv' = [drv EXCEPT !.at = 193]
    /\ UNCHANGED <<pcm, fsel, rxfifo, txfifo, wire, hist, periph, MboxVars>>

\* Variant: the read returns the newest byte of the FIFO.
read_data_Newest ==
    /\ drv.fn = "spisl_read" /\ drv.at = 193
    /\ rxfifo # <<>>
    /\ drv' = ReturnValue(ToUint8(rxfifo[Len(rxfifo)]))
    /\ rxfifo' = SubSeq(rxfifo, 1, Len(rxfifo) - 1)
    /\ hist' = [hist EXCEPT
                  !.taken = @ + 1,
                  !.reads = IF drv.back = 0
                            THEN Append(@, <<hist.taken + 1,
                                             ToUint8(rxfifo[Len(rxfifo)])>>)
                            ELSE @,
                  !.before = hist.run,
                  !.run = Run(hist.run, ToUint8(rxfifo[Len(rxfifo)]))]
    /\ UNCHANGED <<pcm, fsel, txfifo, wire, periph, MboxVars>>

\* Line 193: return HW.PCM.FIFO;  A read of the FIFO register removes the
\* oldest entry.
read_data ==
    /\ drv.fn = "spisl_read" /\ drv.at = 193
    /\ rxfifo # <<>>
    /\ drv' = ReturnValue(ToUint8(Head(rxfifo)))
    /\ rxfifo' = Tail(rxfifo)
    /\ hist' = [hist EXCEPT
                  !.taken = @ + 1,
                  !.reads = IF drv.back = 0
                            THEN Append(@, <<hist.taken + 1,
                                             ToUint8(Head(rxfifo))>>)
                            ELSE @,
                  !.before = hist.run,
                  !.run = Run(hist.run, ToUint8(Head(rxfifo)))]
    /\ UNCHANGED <<pcm, fsel, txfifo, wire, periph, MboxVars>>

call_spisl_write ==
    /\ drv.fn = "none"
    /\ \E d \in WriteBytes :
          drv' = [NoDrv EXCEPT !.fn = "spisl_write", !.at = 203, !.data = d]
    /\ hist' = [hist EXCEPT !.reads = <<>>, !.drained = <<>>,
                            !.atWrite = <<>>, !.wret = NoWret, !.tx = <<>>]
    /\ UNCHANGED <<pcm, fsel, rxfifo, txfifo, wire, periph, MboxVars>>

\* Line 203: while (!HW.PCM.CS.B.TXD);
write_wait ==
    /\ drv.fn = "spisl_write" /\ drv.at = 203
    /\ TXD
    /\ drv' = [drv EXCEPT !.at = 204]
    /\ UNCHANGED <<pcm, fsel, rxfifo, txfifo, wire, hist, periph, MboxVars>>

\* Line 204: HW.PCM.FIFO = data;
write_data ==
    /\ drv.fn = "spisl_write" /\ drv.at = 204
    /\ txfifo' = IF TXD THEN Append(txfifo, drv.data) ELSE txfifo
    /\ drv' = [drv EXCEPT !.at = 205]
    /\ hist' = [hist EXCEPT !.atWrite = rxfifo,
                            !.arrAtWrite = Len(hist.arrived),
                            !.tx = Append(@, [data |-> drv.data,
                                              before |-> hist.before,
                                              taken |-> hist.taken,
                                              gates |-> hist.gates,
                                              sent |-> wire.sent])]
    /\ UNCHANGED <<pcm, fsel, rxfifo, wire, periph, MboxVars>>

\* What spisl_write leaves behind when it returns.
WriteReturn ==
    [hist EXCEPT !.wret = [done |-> TRUE,
                           k |-> Len(hist.atWrite),
                           n |-> Len(hist.drained),
                           left |-> Len(rxfifo),
                           during |-> Len(hist.arrived) - hist.arrAtWrite]]

\* Variant: one byte is read and discarded, then spisl_write returns.
write_drain_Once ==
    /\ drv.fn = "spisl_write" /\ drv.at = 205
    /\ IF RXD /\ hist.drained = <<>>
       THEN /\ rxfifo' = Tail(rxfifo)
            /\ hist' = [hist EXCEPT !.taken = @ + 1,
                                    !.drained = Append(@, Head(rxfifo))]
            /\ UNCHANGED drv
       ELSE /\ drv' = ReturnVoid
            /\ hist' = WriteReturn
            /\ UNCHANGED rxfifo
    /\ UNCHANGED <<pcm, fsel, txfifo, wire, periph, MboxVars>>

\* Line 205: while (HW.PCM.CS.B.RXD) dummy = HW.PCM.FIFO;
write_drain ==
    /\ drv.fn = "spisl_write" /\ drv.at = 205
    /\ IF RXD
       THEN /\ rxfifo' = Tail(rxfifo)
            /\ hist' = [hist EXCEPT !.taken = @ + 1,
                                    !.drained = Append(@, Head(rxfifo))]
            /\ UNCHANGED drv
       ELSE /\ drv' = ReturnVoid
            /\ hist' = WriteReturn
            /\ UNCHANGED rxfifo
    /\ UNCHANGED <<pcm, fsel, txfifo, wire, periph, MboxVars>>

\* The master clocks one byte: b is shifted in while the oldest byte of the
\* transmit FIFO, if there is one, is shifted out.  comp marks a byte that
\* was received while a byte of spisl_write was sent.
MasterXfer ==
    /\ Attached /\ Clocked
    /\ wire.sent < MaxXfer
    /\ \E b \in WireBytes :
          /\ ShiftIn(b)
          /\ hist' = IF Len(rxfifo) < PcmFifoDepth
                     THEN [hist EXCEPT !.arrived =
                             Append(@, [b |-> b, comp |-> txfifo # <<>>])]
                     ELSE hist
    /\ ShiftOut
    /\ wire' = [wire EXCEPT !.sent = @ + 1,
                            !.miso = IF txfifo # <<>>
                                     THEN Append(@, Head(txfifo)) ELSE @]
    /\ UNCHANGED <<drv, pcm, fsel, periph, MboxVars>>

InitSlave ==
    /\ pc = "idle" /\ loc = NoLoc /\ mbox = NoMbox /\ ret = Zero
    /\ wfifo = <<>> /\ rfifo = <<>> /\ virtOffset = 0 /\ noise = 0
    /\ popped = <<>> /\ acc = NoAcc /\ lastPush = NoPush /\ fwAns = NoAns
    /\ conc = NoConc
    /\ drv = NoDrv
    /\ pcm = PcmReady
    /\ fsel = [p \in PcmPins |-> Alt2]
    /\ rxfifo = <<>>
    /\ txfifo = <<>>
    /\ wire = NoWire
    /\ hist = NoHist
    /\ periph = NoPeriph
    /\ SysOff

NextSlave ==
    \/ call_spisl_read \/ read_wait \/ read_data
    \/ call_spisl_write \/ write_wait \/ write_data \/ write_drain
    \/ MasterXfer

SpecSlave == InitSlave /\ [][NextSlave]_vars

\* ---------------------------------------------------- the poll functions
Bit(b) == IF b THEN 1 ELSE 0
\* !x and !!x of C.
Not(x) == Bit(x = 0)

\* Status flags of the receive FIFOs.  SPI0: RXD at least one byte, RXR three
\* quarters full, RXF full.  UART0: RXFE empty.  UART1: RX_READY at least one
\* byte.
HwFlag(dev, f) ==
    CASE dev = "PCM" /\ f = "RXD" -> Bit(RXD)
      [] dev = "SPI0" /\ f = "RXD" -> Bit(periph.SPI0 >= 1)
      [] dev = "SPI0" /\ f = "RXR" ->
            Bit(periph.SPI0 >= (raspi_SPI_FIFOSIZE * 3) \div 4)
      [] dev = "SPI0" /\ f = "RXF" -> Bit(periph.SPI0 >= raspi_SPI_FIFOSIZE)
      [] dev = "UART0" /\ f = "RXFE" -> Bit(periph.UART0 = 0)
      [] dev = "UART1" /\ f = "RX_READY" -> Bit(periph.UART1 >= 1)

spisl_poll(num) == IF num <= 0 THEN 1 ELSE HwFlag("PCM", "RXD")

\* Variant: every num >= 1 is answered from the three-quarters flag.
spi_poll_Threshold(num) ==
    IF num <= 0 THEN 1
    ELSE IF num < raspi_SPI_FIFOSIZE THEN HwFlag("SPI0", "RXR")
    ELSE HwFlag("SPI0", "RXF")

\* Variant: RXD is used below half of the FIFO size only.
spi_poll_Half(num) ==
    IF num <= 0 THEN 1
    ELSE IF num < raspi_SPI_FIFOSIZE \div 2 THEN HwFlag("SPI0", "RXD")
    ELSE IF num < raspi_SPI_FIFOSIZE THEN HwFlag("SPI0", "RXR")
    ELSE HwFlag("SPI0", "RXF")

spi_poll(num) ==
    IF num <= 0 THEN 1
    ELSE IF num < (raspi_SPI_FIFOSIZE * 3) \div 4 THEN HwFlag("SPI0", "RXD")
    ELSE IF num < raspi_SPI_FIFOSIZE THEN HwFlag("SPI0", "RXR")
    ELSE HwFlag("SPI0", "RXF")

uart_poll(num) == IF num <= 0 THEN 1 ELSE Not(HwFlag("UART0", "RXFE"))
uart0_poll(num) == IF num <= 0 THEN 1 ELSE Not(HwFlag("UART0", "RXFE"))
uart1_poll(num) == IF num <= 0 THEN 1 ELSE Not(Not(HwFlag("UART1", "RX_READY")))

\* The poll functions, the peripheral each one asks, and its receive FIFO.
PollDev ==
    [spisl_poll |-> "PCM", spi_poll |-> "SPI0", uart_poll |-> "UART0",
     uart0_poll |-> "UART0", uart1_poll |-> "UART1"]
Capacity ==
    [PCM |-> PcmFifoDepth, SPI0 |-> raspi_SPI_FIFOSIZE, UART0 |-> FifoDepth,
     UART1 |-> FifoDepth]
Level(dev) == IF dev = "PCM" THEN Len(rxfifo) ELSE periph[dev]
PollNums ==
    {-1, 0, 1, 2, (raspi_SPI_FIFOSIZE * 3) \div 4, raspi_SPI_FIFOSIZE}

call_poll ==
    /\ drv.fn = "none"
    /\ \E f \in DOMAIN PollDev, n \in PollNums :
          drv' = [NoDrv EXCEPT !.fn = f, !.num = n]
    /\ hist' = [hist EXCEPT !.poll = NoPoll]
    /\ UNCHANGED <<pcm, fsel, rxfifo, txfifo, wire, periph, MboxVars>>

\* The body of a poll function: at most one read of a status register.
poll_return ==
    /\ drv.fn \in DOMAIN PollDev
    /\ drv' = [NoDrv EXCEPT !.ret =
                 CASE drv.fn = "spisl_poll" -> spisl_poll(drv.num)
                   [] drv.fn = "spi_poll" -> spi_poll(drv.num)
                   [] drv.fn = "uart_poll" -> uart_poll(drv.num)
                   [] drv.fn = "uart0_poll" -> uart0_poll(drv.num)
                   [] drv.fn = "uart1_poll" -> uart1_poll(drv.num)]
    /\ hist' = [hist EXCEPT !.poll = [fn |-> drv.fn, num |-> drv.num,
                                      level |-> Level(PollDev[drv.fn])]]
    /\ UNCHANGED <<pcm, fsel, rxfifo, txfifo, wire, periph, MboxVars>>

\* A byte arrives in the receive FIFO of SPI0, UART0 or UART1.
PeriphByte ==
    /\ \E dev \in DOMAIN periph :
          /\ periph[dev] < Capacity[dev]
          /\ periph' = [periph EXCEPT ![dev] = @ + 1]
    /\ UNCHANGED <<drv, pcm, fsel, rxfifo, txfifo, wire, hist, MboxVars>>
NextPoll ==
    \/ call_poll \/ poll_return \/ PeriphByte \/ MasterStray

SpecPoll == InitSlave /\ [][NextPoll]_vars

\* ----------------------------------------------------- spisl_synchronize
\* The byte the receiver assembles when the stream is delayed by k bits: the
\* last k bits of the previous byte, then the first 8 - k bits of byte b.
Window(prev, b, k) == (prev % (2^k)) * (2^(8 - k)) + (b \div (2^k))

call_spisl_synchronize ==
    /\ drv.fn = "none"
    /\ drv' = [NoDrv EXCEPT !.fn = "spisl_synchronize", !.at = 239,
                            !.marker = Marker, !.cnt = 0]
    /\ hist' = [NoHist EXCEPT !.taken = hist.taken, !.mark = hist.taken,
                               !.compared = hist.taken]
    /\ UNCHANGED <<pcm, fsel, rxfifo, txfifo, wire, periph, MboxVars>>

\* Lines 239 and 247: incoming = spisl_read();
sync_read ==
    /\ drv.fn = "spisl_synchronize" /\ drv.at \in {239, 247}
    /\ drv' = [drv EXCEPT !.fn = "spisl_read", !.at = 192, !.back = 240]
    /\ UNCHANGED <<pcm, fsel, rxfifo, txfifo, wire, hist, periph, MboxVars>>

\* Variant: while (cnt++ <= 10)
sync_test_Eleven ==
    /\ drv.fn = "spisl_synchronize" /\ drv.at = 240
    /\ drv' = [drv EXCEPT !.cnt = @ + 1,
                          !.at = IF drv.cnt <= SyncCount THEN 241 ELSE 250]
    /\ UNCHANGED <<pcm, fsel, rxfifo, txfifo, wire, hist, periph, MboxVars>>

\* Line 240: while (cnt++ < 10)
sync_test ==
    /\ drv.fn = "spisl_synchronize" /\ drv.at = 240
    /\ drv' = [drv EXCEPT !.cnt = @ + 1,
                          !.at = IF drv.cnt < SyncCount THEN 241 ELSE 250]
    /\ UNCHANGED <<pcm, fsel, rxfifo, txfifo, wire, hist, periph, MboxVars>>

\* Variant: the comparison is against the marker rotated by one bit.
sync_compare_Rotated ==
    /\ drv.fn = "spisl_synchronize" /\ drv.at = 241
    /\ drv' = [drv EXCEPT
                 !.at = IF drv.incoming # Window(drv.marker, drv.marker, 1)
                        THEN 242 ELSE 247]
    /\ hist' = [hist EXCEPT
                  !.wrong = @ + Bit(drv.incoming # drv.marker),
                  !.compared = hist.taken,
                  !.mark = IF drv.incoming # drv.marker THEN hist.taken ELSE @]
    /\ UNCHANGED <<pcm, fsel, rxfifo, txfifo, wire, periph, MboxVars>>

\* Line 241: if (incoming != marker)
sync_compare ==
    /\ drv.fn = "spisl_synchronize" /\ drv.at = 241
    /\ drv' = [drv EXCEPT !.at = IF drv.incoming # drv.marker THEN 242 ELSE 247]
    /\ hist' = [hist EXCEPT
                  !.wrong = @ + Bit(drv.incoming # drv.marker),
                  !.compared = hist.taken,
                  !.mark = IF drv.incoming # drv.marker THEN hist.taken ELSE @]
    /\ UNCHANGED <<pcm, fsel, rxfifo, txfifo, wire, periph, MboxVars>>

\* Line 242: HW.PCM.MODE.B.CLK_DIS = 1;
sync_gate_on ==
    /\ drv.fn = "spisl_synchronize" /\ drv.at = 242
    /\ WriteReg("MODE", [ReadReg("MODE") EXCEPT !["CLK_DIS"] = 1])
    /\ drv' = [drv EXCEPT !.at = 243]
    /\ hist' = [hist EXCEPT !.gates = @ + 1,
                            !.backlog = @ \/ rxfifo # <<>>]
    /\ UNCHANGED <<fsel, wire, periph, MboxVars>>

\* Variant: a wrong byte costs two of the markers counted so far.
sync_gate_hold_Penalty ==
    /\ drv.fn = "spisl_synchronize" /\ drv.at = 243
    /\ drv' = [drv EXCEPT !.cnt = IF @ >= 2 THEN @ - 2 ELSE 0, !.at = 245]
    /\ UNCHANGED <<pcm, fsel, rxfifo, txfifo, wire, hist, periph, MboxVars>>

\* Lines 243, 244: st_delay(ST_1us); cnt = 0;
sync_gate_hold ==
    /\ drv.fn = "spisl_synchronize" /\ drv.at = 243
    /\ drv' = [drv EXCEPT !.cnt = 0, !.at = 245]
    /\ UNCHANGED <<pcm, fsel, rxfifo, txfifo, wire, hist, periph, MboxVars>>

\* Variant: the clock stays gated off after the delay.
sync_gate_off_Stuck ==
    /\ drv.fn = "spisl_synchronize" /\ drv.at = 245
    /\ drv' = [drv EXCEPT !.at = 247]
    /\ hist' = [hist EXCEPT !.pulses = @ + 1]
    /\ UNCHANGED <<pcm, rxfifo, txfifo, wire, fsel, periph, MboxVars>>

\* Line 245: HW.PCM.MODE.B.CLK_DIS = 0;  The pulse has made the receiver miss
\* one bit of the stream: the stream is delayed by one bit less.
sync_gate_off ==
    /\ drv.fn = "spisl_synchronize" /\ drv.at = 245
    /\ WriteReg("MODE", [ReadReg("MODE") EXCEPT !["CLK_DIS"] = 0])
    /\ wire' = [wire EXCEPT !.offset = (@ + 7) % 8]
    /\ drv' = [drv EXCEPT !.at = 247]
    /\ hist' = [hist EXCEPT !.pulses = @ + 1]
    /\ UNCHANGED <<fsel, periph, MboxVars>>

\* Variant: the byte sent as acknowledgement is the inverted marker.
sync_write_Inverted ==
    /\ drv.fn = "spisl_synchronize" /\ drv.at = 250
    /\ drv' = [drv EXCEPT !.fn = "spisl_write", !.at = 203, !.back = 252,
                          !.data = 255 - drv.marker]
    /\ hist' = [hist EXCEPT !.drained = <<>>, !.atWrite = <<>>,
                            !.wret = NoWret, !.eleventh = drv.incoming]
    /\ UNCHANGED <<pcm, fsel, rxfifo, txfifo, wire, periph, MboxVars>>

\* Line 250: spisl_write(marker);
sync_write ==
    /\ drv.fn = "spisl_synchronize" /\ drv.at = 250
    /\ drv' = [drv EXCEPT !.fn = "spisl_write", !.at = 203, !.back = 252,
                          !.data = drv.marker]
    /\ hist' = [hist EXCEPT !.drained = <<>>, !.atWrite = <<>>,
                            !.wret = NoWret, !.eleventh = drv.incoming]
    /\ UNCHANGED <<pcm, fsel, rxfifo, txfifo, wire, periph, MboxVars>>

\* Line 252: marker ^= 0xff;
sync_invert ==
    /\ drv.fn = "spisl_synchronize" /\ drv.at = 252
    /\ drv' = [drv EXCEPT !.marker = 255 - @, !.at = 254]
    /\ UNCHANGED <<pcm, fsel, rxfifo, txfifo, wire, hist, periph, MboxVars>>

\* Variant: a byte that is not the sentinel starts the counting again.
sync_sentinel_Reset ==
    /\ drv.fn = "spisl_synchronize" /\ drv.at = 254
    /\ drv' = IF drv.incoming # drv.marker
              THEN [drv EXCEPT !.fn = "spisl_read", !.at = 192, !.back = 254,
                               !.cnt = 0]
              ELSE [NoDrv EXCEPT !.ret = drv.incoming]
    /\ UNCHANGED <<pcm, fsel, rxfifo, txfifo, wire, hist, periph, MboxVars>>

\* Line 254: while (incoming != marker) incoming = spisl_read();
sync_sentinel ==
    /\ drv.fn = "spisl_synchronize" /\ drv.at = 254
    /\ drv' = IF drv.incoming # drv.marker
              THEN [drv EXCEPT !.fn = "spisl_read", !.at = 192, !.back = 254]
              ELSE [NoDrv EXCEPT !.ret = drv.incoming]
    /\ UNCHANGED <<pcm, fsel, rxfifo, txfifo, wire, hist, periph, MboxVars>>

\* The master clocks the next byte of its stream at its own pace; it does not
\* overrun the receive FIFO.  The stream is either delayed and made of marker
\* bytes only, or aligned with up to MaxBad other bytes (the sentinel, or the
\* byte 0) among the markers.
MasterStream ==
    /\ Attached /\ Clocked
    /\ wire.sent < MaxStream
    /\ Len(rxfifo) < PcmFifoDepth
    /\ \E b \in {Marker} \cup (IF wire.k0 = 0 /\ wire.bad < MaxBad
                             THEN {Sentinel, 0} ELSE {}) :
          /\ ShiftIn(Window(wire.prev, b, wire.offset))
          /\ wire' = [wire EXCEPT !.sent = @ + 1,
                                  !.bad = IF b = Marker THEN @ ELSE @ + 1,
                                  !.prev = b,
                                  !.miso = IF txfifo # <<>>
                                           THEN Append(@, Head(txfifo)) ELSE @]
    /\ ShiftOut
    /\ UNCHANGED <<drv, pcm, fsel, hist, periph, MboxVars>>

\* The stream reaches the receiver delayed by k0 bits, k0 in 0..7; before it,
\* the master has sent marker bytes as well.
InitSync ==
    /\ pc = "idle" /\ loc = NoLoc /\ mbox = NoMbox /\ ret = Zero
    /\ wfifo = <<>> /\ rfifo = <<>> /\ virtOffset = 0 /\ noise = 0
    /\ popped = <<>> /\ acc = NoAcc /\ lastPush = NoPush /\ fwAns = NoAns
    /\ conc = NoConc
    /\ drv = NoDrv
    /\ pcm = PcmReady
    /\ fsel = [p \in PcmPins |-> Alt2]
    /\ rxfifo = <<>>
    /\ txfifo = <<>>
    /\ \E k \in 0..7 :
          wire = [NoWire EXCEPT !.offset = k, !.k0 = k, !.prev = Marker]
    /\ hist = NoHist
    /\ periph = NoPeriph
    /\ SysOff

NextSync ==
    \/ call_spisl_synchronize \/ sync_read \/ sync_test \/ sync_compare
    \/ sync_gate_on \/ sync_gate_hold \/ sync_gate_off \/ sync_write
    \/ sync_invert \/ sync_sentinel
    \/ read_wait \/ read_data \/ write_wait \/ write_data \/ write_drain
    \/ MasterStream

SpecSync == InitSync /\ [][NextSync]_vars

\* ----------------------------------------------------- hw.h: system timer
\* a + b and a - b on uint32_t, and a >= b.
Add32(a, b) ==
    <<(a[1] + b[1] + (a[2] + b[2]) \div Half) % Half, (a[2] + b[2]) % Half>>
Sub32(a, b) ==
    <<(a[1] - b[1] - (IF a[2] < b[2] THEN 1 ELSE 0) + 2 * Half) % Half,
      (a[2] - b[2] + Half) % Half>>
Geq32(a, b) == a[1] > b[1] \/ (a[1] = b[1] /\ a[2] >= b[2])

\* #define ST_NOW ((st_time_t)HW.ST.CLO)
ST_NOW == st.CLO

\* Variant: after >= before + diff.
st_elapsed_NoWrap(before, after, diff) ==
    IF Geq32(after, Add32(before, diff)) THEN 1 ELSE 0

\* return ((after) - (before) >= (diff));
st_elapsed(before, after, diff) ==
    IF Geq32(Sub32(after, before), diff) THEN 1 ELSE 0

\* The delays asked for, the values of the counter at the start of a run and
\* the ticks by which the counter is seen to advance.
Delays == {Zero, U32(ST_1us), U32(3), U32(ST_1ms), <<2^15, 0>>, MaxU32}
Starts == {Zero, <<0, Half - 2>>, <<2^15 - 1, Half - 1>>,
           <<Half - 1, Half - ST_1ms>>, <<Half - 1, Half - 3>>, MaxU32}
TickSteps == {1, 2, ST_1ms - 2}

call_st_delay ==
    /\ drv.fn = "none"
    /\ drv' = [NoDrv EXCEPT !.fn = "st_delay", !.at = 1495]
    /\ \E d \in Delays :
          st' = [NoSt EXCEPT !.CLO = st.CLO, !.advances = st.advances,
                             !.delay = d]
    /\ UNCHANGED <<pcm, fsel, rxfifo, txfifo, wire, hist, periph>>
    /\ UNCHANGED <<MainVars, wfifo, rfifo, conc, pHW, os, spi0, GPIO, uart0>>

\* Line 1495: st_time_t start = ST_NOW;
st_delay_start ==
    /\ drv.fn = "st_delay" /\ drv.at = 1495
    /\ st' = [st EXCEPT !.start = ST_NOW, !.ticks = 0]
    /\ drv' = [drv EXCEPT !.at = 1496]
    /\ UNCHANGED <<pcm, fsel, rxfifo, txfifo, wire, hist, periph>>
    /\ UNCHANGED <<MainVars, wfifo, rfifo, conc, pHW, os, spi0, GPIO, uart0>>

\* Line 1496: while (!st_elapsed(start, ST_NOW, delay));
st_delay_poll ==
    /\ drv.fn = "st_delay" /\ drv.at = 1496
    /\ st' = [st EXCEPT !.now = ST_NOW, !.polled = TRUE, !.seen = st.ticks]
    /\ drv' = IF st_elapsed(st.start, ST_NOW, st.delay) # 0
              THEN NoDrv ELSE drv
    /\ UNCHANGED <<pcm, fsel, rxfifo, txfifo, wire, hist, periph>>
    /\ UNCHANGED <<MainVars, wfifo, rfifo, conc, pHW, os, spi0, GPIO, uart0>>

\* The free-running counter advances.
StTick ==
    /\ st.advances < MaxAdvances
    /\ \E n \in TickSteps :
          st' = [st EXCEPT !.CLO = Add32(@, U32(n)), !.ticks = @ + n,
                           !.advances = @ + 1]
    /\ UNCHANGED <<PcmVars, MainVars, wfifo, rfifo, conc, pHW, os, spi0, GPIO, uart0>>

InitTimer ==
    /\ pc = "idle" /\ loc = NoLoc /\ mbox = NoMbox /\ ret = Zero
    /\ wfifo = <<>> /\ rfifo = <<>> /\ virtOffset = 0 /\ noise = 0
    /\ popped = <<>> /\ acc = NoAcc /\ lastPush = NoPush /\ fwAns = NoAns
    /\ conc = NoConc
    /\ PcmOff
    /\ \E c \in Starts : st = [NoSt EXCEPT !.CLO = c]
    /\ pHW = 0 /\ os = NoOs /\ spi0 = NoSpi0
    /\ GPIO = NoGpio /\ uart0 = NoUart0

NextTimer == call_st_delay \/ st_delay_start \/ st_delay_poll \/ StTick

SpecTimer == InitTimer /\ [][NextTimer]_vars

\* -------------------------------------------------- part_002: raspi_map_hw
\* #define BUS(x) ((x)+0x7e000000ul), and the fallback value of arm_io_base.
BusBase == 126 * 2^24
FallbackBase == 32 * 2^24
\* (void *)-1
MAP_FAILED == 0 - 1
\* What /proc/device-tree/soc/ranges may hold in its first 8 bytes: bus
\* address and ARM address of the peripherals, big-endian; the last one does
\* not name the bus address of the peripherals.
RangesFiles ==
    { <<126, 0, 0, 0, 32, 0, 0, 0>>, <<126, 0, 0, 0, 63, 0, 0, 0>>,
      <<126, 32, 0, 0, 63, 0, 0, 0>> }
\* Addresses at which the kernel may place the mapping.
MapAddrs == {2^30, 2^30 + 2^12}

\* (ranges[i]<<24) | (ranges[i+1]<<16) | (ranges[i+2]<<8) | (ranges[i+3]),
\* with i counted from 0.
BigEndian(ranges, i) ==
    BitOr(BitOr(ranges[i + 1] * 2^24, ranges[i + 2] * 2^16),
          BitOr(ranges[i + 3] * 2^8, ranges[i + 4]))

\* raspi_map_hw returns v.
MapReturn(v) ==
    /\ drv' = [NoDrv EXCEPT !.ret = v]
    /\ os' = [os EXCEPT !.rets = Append(@, v), !.fd = -1]

\* Variant: every call maps the registers.
call_raspi_map_hw_Again ==
    /\ drv.fn = "none"
    /\ os.calls < MaxCalls /\ ~os.aborted
    /\ drv' = [NoDrv EXCEPT !.fn = "raspi_map_hw", !.at = 45]
    /\ os' = [os EXCEPT !.calls = @ + 1, !.was = pHW,
                        !.arm_io_base = FallbackBase]
    /\ UNCHANGED <<pHW, st, spi0, GPIO, uart0>>
    /\ UNCHANGED <<pcm, fsel, rxfifo, txfifo, wire, hist, periph>>
    /\ UNCHANGED <<MainVars, wfifo, rfifo, conc>>

\* Lines 42..45: if (pHW) return 1; uint32_t arm_io_base = 0x20000000ul;
call_raspi_map_hw ==
    /\ drv.fn = "none"
    /\ os.calls < MaxCalls /\ ~os.aborted
    /\ IF pHW # 0
       THEN /\ drv' = [NoDrv EXCEPT !.ret = 1]
            /\ os' = [os EXCEPT !.calls = @ + 1, !.was = pHW,
                                !.rets = Append(@, 1)]
       ELSE /\ drv' = [NoDrv EXCEPT !.fn = "raspi_map_hw", !.at = 45]
            /\ os' = [os EXCEPT !.calls = @ + 1, !.was = pHW,
                                !.arm_io_base = FallbackBase]
    /\ UNCHANGED <<pHW, st, spi0, GPIO, uart0>>
    /\ UNCHANGED <<pcm, fsel, rxfifo, txfifo, wire, hist, periph>>
    /\ UNCHANGED <<MainVars, wfifo, rfifo, conc>>

\* Lines 47..65: the ranges file cannot be opened, or fewer than 8 bytes of
\* it can be read, and the fallback value stays; or its 8 bytes are read,
\* arm_io_base is taken from them and the assertion on the bus address is
\* checked.  The file is closed again.
map_ranges ==
    /\ drv.fn = "raspi_map_hw" /\ drv.at = 45
    /\ \/ /\ drv' = [drv EXCEPT !.at = 68]
          /\ UNCHANGED os
       \/ \E ranges \in RangesFiles :
             IF BigEndian(ranges, 0) = BusBase
             THEN /\ os' = [os EXCEPT !.arm_io_base = BigEndian(ranges, 4)]
                  /\ drv' = [drv EXCEPT !.at = 68]
             ELSE /\ os' = [os EXCEPT !.aborted = TRUE]
                  /\ drv' = [drv EXCEPT !.fn = "abort", !.at = 62]
    /\ UNCHANGED <<pHW, st, spi0, GPIO, uart0>>
    /\ UNCHANGED <<pcm, fsel, rxfifo, txfifo, wire, hist, periph>>
    /\ UNCHANGED <<MainVars, wfifo, rfifo, conc>>

\* Lines 68..70: fd = open("/dev/mem", O_RDWR|O_SYNC); if (fd < 0) return 0;
map_open ==
    /\ drv.fn = "raspi_map_hw" /\ drv.at = 68
    /\ \/ MapReturn(0)
       \/ /\ os' = [os EXCEPT !.fd = 3, !.opens = @ + 1, !.held = @ + 1]
          /\ drv' = [drv EXCEPT !.at = 72]
    /\ UNCHANGED <<pHW, st, spi0, GPIO, uart0>>
    /\ UNCHANGED <<pcm, fsel, rxfifo, txfifo, wire, hist, periph>>
    /\ UNCHANGED <<MainVars, wfifo, rfifo, conc>>

\* Variant: the result of mmap is stored before it is checked.
map_mmap_Unchecked ==
    /\ drv.fn = "raspi_map_hw" /\ drv.at = 72
    /\ \E addr \in MapAddrs \cup {MAP_FAILED} :
          /\ drv' = [NoDrv EXCEPT !.ret = IF addr = MAP_FAILED THEN 0 ELSE 1]
          /\ os' = [os EXCEPT !.maps = @ + 1, !.held = @ - 1, !.fd = -1,
                       !.rets = Append(@, IF addr = MAP_FAILED THEN 0 ELSE 1)]
          /\ pHW' = addr
    /\ UNCHANGED <<st, spi0, GPIO, uart0>>
    /\ UNCHANGED <<pcm, fsel, rxfifo, txfifo, wire, hist, periph>>
    /\ UNCHANGED <<MainVars, wfifo, rfifo, conc>>

\* Lines 72..80: addr = mmap(..., fd, arm_io_base); close(fd);
\* if (addr == MAP_FAILED) return 0; pHW = addr; return 1;
map_mmap ==
    /\ drv.fn = "raspi_map_hw" /\ drv.at = 72
    /\ \E addr \in MapAddrs \cup {MAP_FAILED} :
          /\ drv' = [NoDrv EXCEPT !.ret = IF addr = MAP_FAILED THEN 0 ELSE 1]
          /\ os' = [os EXCEPT !.maps = @ + 1, !.held = @ - 1, !.fd = -1,
                       !.rets = Append(@, IF addr = MAP_FAILED THEN 0 ELSE 1)]
          /\ pHW' = IF addr = MAP_FAILED THEN pHW ELSE addr
    /\ UNCHANGED <<st, spi0, GPIO, uart0>>
    /\ UNCHANGED <<pcm, fsel, rxfifo, txfifo, wire, hist, periph>>
    /\ UNCHANGED <<MainVars, wfifo, rfifo, conc>>

NextMap == call_raspi_map_hw \/ map_ranges \/ map_open \/ map_mmap

SpecMap == Init /\ [][NextMap]_vars

\* ------------------------------------------------- spi.h: spi_start, spi_stop
\* HW.SPI0.CS.B.DONE: the transfer is active and nothing is left to send;
\* HW.SPI0.CS.B.TXD: the transmit FIFO accepts a byte.
SpiDone == Bit(spi0.TA = 1 /\ spi0.tx = 0)
SpiTxd == Bit(spi0.tx < raspi_SPI_FIFOSIZE)
\* The chip select lines that spi_start is called with.
Destinations == {0, 1}

SpiFrame ==
    /\ UNCHANGED <<st, pHW, os, GPIO, uart0>>
    /\ UNCHANGED <<pcm, fsel, rxfifo, txfifo, wire, hist>>
    /\ UNCHANGED <<MainVars, wfifo, rfifo, conc>>

\* spi_start(destination) is called.
call_spi_start ==
    /\ drv.fn = "none"
    /\ \E destination \in Destinations :
          spi0' = [spi0 EXCEPT !.dest = destination]
    /\ drv' = [NoDrv EXCEPT !.fn = "spi_start", !.at = 67]
    /\ UNCHANGED periph
    /\ SpiFrame

\* Line 67: HW.SPI0.CS.B.CS = destination;
spi_start_cs ==
    /\ drv.fn = "spi_start" /\ drv.at = 67
    /\ spi0' = [spi0 EXCEPT !.CS = spi0.dest % 4]
    /\ drv' = [drv EXCEPT !.at = 68]
    /\ UNCHANGED periph
    /\ SpiFrame

\* Variant: CLEAR = 1, which clears the transmit FIFO.
spi_start_clear_Tx ==
    /\ drv.fn = "spi_start" /\ drv.at = 68
    /\ spi0' = [spi0 EXCEPT !.tx = 0, !.fresh = TRUE]
    /\ drv' = [drv EXCEPT !.at = 69]
    /\ UNCHANGED periph
    /\ SpiFrame

\* Line 68: HW.SPI0.CS.B.CLEAR = 2; bit 1 of CLEAR clears the receive FIFO.
spi_start_clear ==
    /\ drv.fn = "spi_start" /\ drv.at = 68
    /\ periph' = [periph EXCEPT !.SPI0 = 0]
    /\ spi0' = [spi0 EXCEPT !.fresh = TRUE]
    /\ drv' = [drv EXCEPT !.at = 69]
    /\ SpiFrame

\* Line 69: HW.SPI0.CS.B.TA = 1; spi_start returns.
spi_start_ta ==
    /\ drv.fn = "spi_start" /\ drv.at = 69
    /\ spi0' = [spi0 EXCEPT !.TA = 1, !.open = TRUE]
    /\ drv' = NoDrv
    /\ UNCHANGED periph
    /\ SpiFrame

\* spi_write(data), lines 104..108, called after spi_start as its comment
\* asks: once TXD is read as 1 the byte goes into the transmit FIFO.
spi_write ==
    /\ drv.fn = "none" /\ spi0.open
    /\ SpiTxd = 1
    /\ spi0' = [spi0 EXCEPT !.tx = @ + 1]
    /\ UNCHANGED <<drv, periph>>
    /\ SpiFrame

\* spi_read(), lines 95..99: once RXD is read as 1 a byte is taken out of
\* the receive FIFO.
spi_read ==
    /\ drv.fn = "none"
    /\ HwFlag("SPI0", "RXD") = 1
    /\ periph' = [periph EXCEPT !.SPI0 = @ - 1]
    /\ UNCHANGED <<drv, spi0>>
    /\ SpiFrame

\* The hardware, while the transfer is active: it shifts one byte out of the
\* transmit FIFO and the byte that came in with it into the receive FIFO
\* ("SPI only receives while sending", lines 92..94).
Spi0Shift ==
    /\ spi0.TA = 1 /\ spi0.tx > 0
    /\ periph.SPI0 < raspi_SPI_FIFOSIZE
    /\ spi0' = [spi0 EXCEPT !.tx = @ - 1, !.fresh = FALSE]
    /\ periph' = [periph EXCEPT !.SPI0 = @ + 1]
    /\ UNCHANGED drv
    /\ SpiFrame

\* spi_stop() is called.
call_spi_stop ==
    /\ drv.fn = "none"
    /\ drv' = [NoDrv EXCEPT !.fn = "spi_stop", !.at = 76]
    /\ spi0' = [spi0 EXCEPT !.seenDone = FALSE]
    /\ UNCHANGED periph
    /\ SpiFrame

\* Variant: TA is cleared without a look at DONE.
spi_stop_wait_Skip ==
    /\ drv.fn = "spi_stop" /\ drv.at = 76
    /\ spi0' = [spi0 EXCEPT !.seenDone = (SpiDone = 1)]
    /\ drv' = [drv EXCEPT !.at = 77]
    /\ UNCHANGED periph
    /\ SpiFrame

\* Line 76: while (!HW.SPI0.CS.B.DONE); the loop ends when DONE is read as 1.
spi_stop_wait ==
    /\ drv.fn = "spi_stop" /\ drv.at = 76
    /\ SpiDone = 1
    /\ spi0' = [spi0 EXCEPT !.seenDone = TRUE]
    /\ drv' = [drv EXCEPT !.at = 77]
    /\ UNCHANGED periph
    /\ SpiFrame

\* Line 77: HW.SPI0.CS.B.TA = 0; spi_stop returns.
spi_stop_ta ==
    /\ drv.fn = "spi_stop" /\ drv.at = 77
    /\ spi0' = [spi0 EXCEPT !.TA = 0, !.open = FALSE, !.pending = spi0.tx]
    /\ drv' = NoDrv
    /\ UNCHANGED periph
    /\ SpiFrame

NextSpi ==
    \/ call_spi_start \/ spi_start_cs \/ spi_start_clear \/ spi_start_ta
    \/ spi_write \/ spi_read \/ Spi0Shift
    \/ call_spi_stop \/ spi_stop_wait \/ spi_stop_ta

SpecSpi == Init /\ [][NextSpi]_vars

\* ---------------------------------------------------- hw.h: gpio_configure
\* raspi_GPIO_function, besides Input and Alt2.
Output == 1
Alt0 == 4
Alt3 == 7

\* Variant: the old function of the pin is not cleared.
FselWrite_NoMask(old, pin, function) ==
    BitOr32(old, U32(BitAnd(function, 7) * 2^((pin % 10) * 3)))

\* What gpio_configure writes to FSEL[gpio/10], from what it read there:
\*   uint32_t tmp = HW.GPIO.FSEL[gpio/10] & ~(7 << ((gpio%10)*3));
\*   HW.GPIO.FSEL[gpio/10] = tmp | (function&7) << ((gpio%10)*3);
FselWrite(old, pin, function) ==
    BitOr32(BitAnd32(old, BitNot32(U32(7 * 2^((pin % 10) * 3)))),
            U32(BitAnd(function, 7) * 2^((pin % 10) * 3)))

\* The pins and functions of the calls, and what the six registers may hold
\* before the first of them: every pin an input (reset); pins 1, 5 and 7 of
\* each register an output, Alt5 and Alt0; or Alt3 on every pin.
ConfigPins == {4, 5, 6, 29, 53}
ConfigFunctions == {Input, Output, Alt0, Alt3}
FselBefore == {Zero, <<128 + 1, 8>>, <<2^14 - 1, Half - 1>>}

\* gpio_configure(pin, function)
call_gpio_configure ==
    /\ GPIO.calls < MaxConfigs
    /\ \E pin \in ConfigPins, function \in ConfigFunctions :
          GPIO' = [GPIO EXCEPT
                     !.FSEL[pin \div 10] = FselWrite(@, pin, function),
                     !.last[pin] = function,
                     !.calls = @ + 1]
    /\ UNCHANGED <<PcmVars, MainVars, wfifo, rfifo, conc>>
    /\ UNCHANGED <<st, pHW, os, spi0, uart0>>

InitGpio ==
    /\ pc = "idle" /\ loc = NoLoc /\ mbox = NoMbox /\ ret = Zero
    /\ wfifo = <<>> /\ rfifo = <<>> /\ virtOffset = 0 /\ noise = 0
    /\ popped = <<>> /\ acc = NoAcc /\ lastPush = NoPush /\ fwAns = NoAns
    /\ conc = NoConc
    /\ PcmOff
    /\ st = NoSt /\ pHW = 0 /\ os = NoOs /\ spi0 = NoSpi0 /\ uart0 = NoUart0
    /\ \E w \in FselBefore :
          GPIO = [NoGpio EXCEPT !.FSEL = [i \in 0..5 |-> w],
                                !.was = [i \in 0..5 |-> w]]

NextGpio == call_gpio_configure

SpecGpio == InitGpio /\ [][NextGpio]_vars

\* ------------------------------------------------------- spi.h: spi_init
\* a / b on uint32_t, for a below 2^31 and b # 0.
Div32(a, b) == IF b[1] >= 2^15 THEN 0 ELSE a \div (b[1] * Half + b[2])

\* The speeds spi_init is called with, in bit/s: around the quotients 65536
\* and 2, and the largest values of the type.
Speeds ==
    {U32(1), U32(1000), U32(3814), U32(3815), U32(100000), U32(1000000),
     U32(125000000), U32(125000001), U32(CORE_CLOCK), U32(CORE_CLOCK + 1),
     <<2^15, 0>>, MaxU32}

SpiInitFrame ==
    /\ UNCHANGED <<st, pHW, os, uart0>>
    /\ UNCHANGED <<pcm, fsel, rxfifo, txfifo, wire, hist, periph>>
    /\ UNCHANGED <<MainVars, wfifo, rfifo, conc>>

\* spi_init(speed) is called.
call_spi_init ==
    /\ drv.fn = "none"
    /\ \E speed \in Speeds :
          spi0' = [spi0 EXCEPT !.speed = speed, !.div = 0, !.i = 0,
                               !.inited = FALSE]
    /\ drv' = [NoDrv EXCEPT !.fn = "spi_init", !.at = 50]
    /\ UNCHANGED GPIO
    /\ SpiInitFrame

\* Line 50: uint32_t div = CORE_CLOCK / speed;
spi_init_div ==
    /\ drv.fn = "spi_init" /\ drv.at = 50
    /\ spi0' = [spi0 EXCEPT !.div = Div32(CORE_CLOCK, spi0.speed)]
    /\ drv' = [drv EXCEPT !.at = 52]
    /\ UNCHANGED GPIO
    /\ SpiInitFrame

\* Line 52: if (div >= 65536) div = 0;
spi_init_high ==
    /\ drv.fn = "spi_init" /\ drv.at = 52
    /\ spi0' = [spi0 EXCEPT !.div = IF @ >= 65536 THEN 0 ELSE @]
    /\ drv' = [drv EXCEPT !.at = 53]
    /\ UNCHANGED GPIO
    /\ SpiInitFrame

\* Line 53: if (div < 2) div = 2;
spi_init_low ==
    /\ drv.fn = "spi_init" /\ drv.at = 53
    /\ spi0' = [spi0 EXCEPT !.div = IF @ < 2 THEN 2 ELSE @]
    /\ drv' = [drv EXCEPT !.at = 54]
    /\ UNCHANGED GPIO
    /\ SpiInitFrame

\* Line 54: HW.SPI0.CLK.B.CDIV = div; the field has 16 bits.
spi_init_cdiv ==
    /\ drv.fn = "spi_init" /\ drv.at = 54
    /\ spi0' = [spi0 EXCEPT !.CDIV = spi0.div % Half]
    /\ drv' = [drv EXCEPT !.at = 55]
    /\ UNCHANGED GPIO
    /\ SpiInitFrame

\* Lines 55..58: HW.SPI0.CS.B.CPHA = 1; memory_barrier(); i = 7;
spi_init_cpha ==
    /\ drv.fn = "spi_init" /\ drv.at = 55
    /\ spi0' = [spi0 EXCEPT !.CPHA = 1, !.i = 7]
    /\ drv' = [drv EXCEPT !.at = 58]
    /\ UNCHANGED GPIO
    /\ SpiInitFrame

\* Lines 58..60: for (i = 7; i <= 11; i++) gpio_configure(i, Alt0); and
\* after the loop memory_barrier(); spi_init returns.
spi_init_pins ==
    /\ drv.fn = "spi_init" /\ drv.at = 58
    /\ IF spi0.i <= 11
       THEN /\ GPIO' = [GPIO EXCEPT
                          !.FSEL[spi0.i \div 10] = FselWrite(@, spi0.i, Alt0),
                          !.last[spi0.i] = Alt0]
            /\ spi0' = [spi0 EXCEPT !.i = @ + 1]
            /\ UNCHANGED drv
       ELSE /\ spi0' = [spi0 EXCEPT !.inited = TRUE]
            /\ drv' = NoDrv
            /\ UNCHANGED GPIO
    /\ SpiInitFrame

NextSpiInit ==
    \/ call_spi_init \/ spi_init_div \/ spi_init_high \/ spi_init_low
    \/ spi_init_cdiv \/ spi_init_cpha \/ spi_init_pins

SpecSpiInit == Init /\ [][NextSpiInit]_vars

\* ------------------------------- part_000: uart0_init, part_003: uart_init
\* const uint32_t UARTCLK = 3000000;
UARTCLK == 3000000

\* The bit rates of the calls: the small ones, the usual ones, those around
\* a divisor of 1 and of 1/64, and the largest values of the type.
Bitrates ==
    {U32(b) : b \in 3..MaxBitrate}
    \cup {U32(9600), U32(115200), U32(187500), U32(187501), U32(UARTCLK),
          U32(4 * UARTCLK), U32(4 * UARTCLK + 1), <<2^15, 0>>, MaxU32}
UartInits == {"uart_init", "uart0_init"}

\* UART0 as an earlier use may have left it: enabled, sending, the divisor
\* registers with all bits set.
UartUsed ==
    [NoUart0 EXCEPT !.CR = [UARTEN |-> 1, TXE |-> 1, RXE |-> 1],
                    !.LCRH = [FEN |-> 0, WLEN |-> 1],
                    !.IBRD = Half - 1, !.FBRD = 63, !.BUSY = 1]

UartFrame ==
    /\ UNCHANGED <<st, pHW, os, spi0>>
    /\ UNCHANGED <<pcm, fsel, rxfifo, txfifo, wire, hist, periph>>
    /\ UNCHANGED <<MainVars, wfifo, rfifo, conc>>

\* uart_init(bitrate) or uart0_init(bitrate) is called.  The positions are
\* the lines of uart_init in part_003; the statements of uart0_init are one
\* line further down in part_000, behind its call of mbox_set_clock.
call_uart_init ==
    /\ drv.fn = "none"
    /\ ~uart0.inited
    /\ \E fn \in UartInits, bitrate \in Bitrates :
          /\ drv' = [NoDrv EXCEPT !.fn = fn,
                                  !.at = IF fn = "uart0_init" THEN 46 ELSE 47]
          /\ uart0' = [uart0 EXCEPT !.bitrate = bitrate]
    /\ UNCHANGED GPIO
    /\ UartFrame

\* part_000, line 46: mbox_set_clock(MBOX_CLOCK_UART, UARTCLK); its two
\* round trips through the mailbox leave the mailbox as they found it.
uart0_init_clock ==
    /\ drv.fn = "uart0_init" /\ drv.at = 46
    /\ drv' = [drv EXCEPT !.at = 47]
    /\ UNCHANGED <<uart0, GPIO>>
    /\ UartFrame

\* Line 47: HW.UART0.CR.B.UARTEN = 0;
uart_init_disable ==
    /\ drv.fn \in UartInits /\ drv.at = 47
    /\ uart0' = [uart0 EXCEPT !.CR.UARTEN = 0]
    /\ drv' = [drv EXCEPT !.at = 48]
    /\ UNCHANGED GPIO
    /\ UartFrame

\* The UART has sent what it had to send.
UartIdle ==
    /\ uart0.BUSY = 1
    /\ uart0' = [uart0 EXCEPT !.BUSY = 0]
    /\ UNCHANGED <<drv, GPIO>>
    /\ UartFrame

\* Line 48: while (HW.UART0.FR.B.BUSY);
uart_init_busy ==
    /\ drv.fn \in UartInits /\ drv.at = 48
    /\ uart0.BUSY = 0
    /\ drv' = [drv EXCEPT !.at = 50]
    /\ UNCHANGED <<uart0, GPIO>>
    /\ UartFrame

\* Lines 50..56: CR.U = 0; CR.B.TXE = 1; CR.B.RXE = 1; LCRH.U = 0;
\* LCRH.B.FEN = 1; LCRH.B.WLEN = 3;
uart_init_mode ==
    /\ drv.fn \in UartInits /\ drv.at = 50
    /\ uart0' = [uart0 EXCEPT !.CR = [UARTEN |-> 0, TXE |-> 1, RXE |-> 1],
                              !.LCRH = [FEN |-> 1, WLEN |-> 3]]
    /\ drv' = [drv EXCEPT !.at = 58]
    /\ UNCHANGED GPIO
    /\ UartFrame

\* Line 58: HW.UART0.IBRD.B.IBRD = UARTCLK/bitrate/16; the field has 16 bits.
uart_init_ibrd ==
    /\ drv.fn \in UartInits /\ drv.at = 58
    /\ uart0' = [uart0 EXCEPT
                   !.IBRD = (Div32(UARTCLK, uart0.bitrate) \div 16) % Half]
    /\ drv' = [drv EXCEPT !.at = 59]
    /\ UNCHANGED GPIO
    /\ UartFrame

\* Variant: UARTCLK/bitrate*4
uart_init_fbrd_DivFirst ==
    /\ drv.fn \in UartInits /\ drv.at = 59
    /\ uart0' = [uart0 EXCEPT
                   !.FBRD = (Div32(UARTCLK, uart0.bitrate) * 4) % 64]
    /\ drv' = [drv EXCEPT !.at = 60]
    /\ UNCHANGED GPIO
    /\ UartFrame

\* Line 59: HW.UART0.FBRD.B.FBRD = UARTCLK*4/bitrate; the field has 6 bits.
uart_init_fbrd ==
    /\ drv.fn \in UartInits /\ drv.at = 59
    /\ uart0' = [uart0 EXCEPT
                   !.FBRD = Div32(UARTCLK * 4, uart0.bitrate) % 64]
    /\ drv' = [drv EXCEPT !.at = 60]
    /\ UNCHANGED GPIO
    /\ UartFrame

\* Lines 60..66: HW.UART0.CR.B.UARTEN = 1; gpio_configure(14, Alt0);
\* gpio_configure(15, Alt0); with the barriers; the function returns.
uart_init_enable ==
    /\ drv.fn \in UartInits /\ drv.at = 60
    /\ uart0' = [uart0 EXCEPT !.CR.UARTEN = 1, !.inited = TRUE]
    /\ GPIO' = [GPIO EXCEPT
                  !.FSEL[1] = FselWrite(FselWrite(@, 14, Alt0), 15, Alt0),
                  !.last[14] = Alt0, !.last[15] = Alt0]
    /\ drv' = NoDrv
    /\ UartFrame

InitUart ==
    /\ pc = "idle" /\ loc = NoLoc /\ mbox = NoMbox /\ ret = Zero
    /\ wfifo = <<>> /\ rfifo = <<>> /\ virtOffset = 0 /\ noise = 0
    /\ popped = <<>> /\ acc = NoAcc /\ lastPush = NoPush /\ fwAns = NoAns
    /\ conc = NoConc
    /\ PcmOff
    /\ st = NoSt /\ pHW = 0 /\ os = NoOs /\ spi0 = NoSpi0 /\ GPIO = NoGpio
    /\ uart0 \in {NoUart0, UartUsed}

NextUart ==
    \/ call_uart_init \/ uart0_init_clock \/ uart_init_disable \/ UartIdle
    \/ uart_init_busy \/ uart_init_mode \/ uart_init_ibrd \/ uart_init_fbrd
    \/ uart_init_enable

SpecUart == InitUart /\ [][NextUart]_vars

\* ================================================================ claims
Range(q) == {q[i] : i \in 1..Len(q)}
Last(q) == q[Len(q)]

\* The functions that run the loop of mbox_call.
Calling == loc.fn \notin {"none", "mbox_write", "mbox_read"}
\* The call of mbox_call that was running has returned.
CallReturned == pc \in {"c_ret", "done"} \/ (pc = "p_call" /\ loc.callno = 2)

\* C1: mbox_call returns only after it has popped a word equal to the word
\* it pushed; every word popped before that one differs from the pushed word
\* and was discarded with the call still waiting; the equal word is the last
\* word the call consumes.
C1_ReturnsOnPushedWord ==
    Calling =>
      /\ pc \in {"c_full", "c_data"} => popped = <<>>
      /\ pc \in {"c_bar", "c_empty", "c_read"} =>
            \A i \in 1..Len(popped) : popped[i] # loc.wanted
      /\ CallReturned =>
            /\ popped # <<>>
            /\ Last(popped) = lastPush.word
            /\ lastPush.word = BitOr32(U32(lastPush.chan), lastPush.addr)
            /\ \A i \in 1..(Len(popped) - 1) : popped[i] # lastPush.word

\* An unrelated word was discarded and the call returned on the next one.
C1_Witness ==
    /\ loc.fn = "mbox_call"
    /\ pc = "c_ret"
    /\ Len(popped) = 2
    /\ popped[1] # loc.wanted

\* C2 as stated: buffer_size is the serialised length, no byte more.
C2_ExactLength ==
    lastPush.prop =>
      lastPush.buf.buffer_size = U32(8 + 12 + 4 * lastPush.buf.n + 4)

\* C2, amended: buffer_size of a submitted message is the serialised length
\* 8 + 12 + 4n + 4 rounded up to the next multiple of 16 (sizeof includes the
\* padding that the 16-byte alignment adds); it is the exact length when and
\* only when n mod 4 = 2.
C2_PaddedLength ==
    lastPush.prop =>
      LET exact == 8 + 12 + 4 * lastPush.buf.n + 4
          pad == (16 - (exact % 16)) % 16
      IN /\ lastPush.buf.buffer_size = U32(exact + pad)
         /\ (lastPush.buf.buffer_size = U32(exact)) <=> (lastPush.buf.n % 4 = 2)

\* The message of mbox_set_clock (3 words, 36 bytes) is sent as 48 bytes.
C2_Witness ==
    /\ lastPush.prop
    /\ loc.fn = "mbox_set_clock"
    /\ lastPush.buf.n = 3
    /\ lastPush.buf.buffer_size = U32(48)

\* C4: every buffer submitted by mbox_property_call has, when its address is
\* pushed, code = PROP_REQUEST, tag.buffer_size = tag.response_length = byte
\* size of the value buffer, has_response = 0 and a zero terminator, and goes
\* to the property channel; also on the second call on a reused buffer.
C4_RequestHeader ==
    lastPush.prop =>
      /\ lastPush.buf.code = U32(PROP_REQUEST)
      /\ lastPush.buf.tag_buffer_size = U32(4 * lastPush.buf.n)
      /\ lastPush.buf.response_length = U32(4 * lastPush.buf.n)
      /\ lastPush.buf.has_response = 0
      /\ lastPush.buf.end = Zero
      /\ lastPush.word[2] % 16 = MBOX_CH_PROPVC

\* The second request of a function is pushed from a buffer in which the
\* firmware had set code and the response flag.
C4_Witness ==
    /\ lastPush.prop
    /\ pc = "c_bar"
    /\ loc.callno = 2
    /\ loc.dirty

\* C5: when the firmware answers the GET_CLOCK_RATE request, built with
\* data = [clock_id, 0], by writing a rate r into data[1], mbox_get_clock
\* returns exactly r.
C5_RateRoundTrip ==
    (/\ loc.fn = "mbox_get_clock"
     /\ pc = "done"
     /\ fwAns.any
     /\ fwAns.tag = U32(MBOX_TAG_GET_CLOCK_RATE)) =>
      /\ ret = fwAns.value
      /\ lastPush.buf.tag = U32(MBOX_TAG_GET_CLOCK_RATE)
      /\ lastPush.buf.data = [i \in 0..1 |-> IF i = 0 THEN U32(loc.clock) ELSE Zero]

\* A rate with all 32 bits set comes back from a successful query.
C5_Witness ==
    /\ loc.fn = "mbox_get_clock"
    /\ pc = "done"
    /\ fwAns.any
    /\ fwAns.tag = U32(MBOX_TAG_GET_CLOCK_RATE)
    /\ fwAns.code = PROP_RESPONSE_SUCCESS
    /\ fwAns.value = MaxU32
    /\ ret = MaxU32

\* C6: a property call whose response carries PROP_RESPONSE_ERROR returns
\* like a successful one: the clock queries return what is in the value
\* buffer, mbox_set_clock goes on to its second request, and no function
\* ends anywhere but at its return.
C6_ErrorCodeIgnored ==
    (pc = "done" /\ fwAns.any /\ fwAns.code = PROP_RESPONSE_ERROR) =>
      /\ mbox.code = PROP_RESPONSE_ERROR
      /\ loc.fn = "mbox_get_clock_measured" => ret = mbox.data[1]
      /\ loc.fn = "mbox_get_clock" =>
            ret = (IF loc.callno = 2 THEN mbox.data[1] ELSE Zero)
      /\ loc.fn = "mbox_set_clock" => loc.callno = 2

\* A query answered with the error code returns the non-zero value word.
C6_Witness ==
    /\ pc = "done"
    /\ loc.fn = "mbox_get_clock"
    /\ loc.callno = 2
    /\ mbox.code = PROP_RESPONSE_ERROR
    /\ ret = MaxU32

\* C8: the data register is written only right after the full flag has been
\* read as clear, and read only right after the empty flag has been read as
\* clear; mbox_write ends with its barrier after the write, and mbox_read
\* starts with its barrier before it waits.
C8_FlagsBeforeData ==
    /\ acc[3] = "write" => acc[2] = "full=0"
    /\ acc[3] = "read" => acc[2] = "empty=0"
    /\ (loc.fn = "mbox_write" /\ pc = "done") =>
          (acc[2] = "write" /\ acc[3] = "barrier")
    /\ (loc.fn = "mbox_read" /\ acc[3] \in {"empty=0", "empty=1"}) =>
          acc[2] \in {"barrier", "empty=1"}

\* mbox_call has waited on a full FIFO and written once the flag was clear.
C8_Witness ==
    /\ loc.fn = "mbox_call"
    /\ acc = <<"full=1", "full=0", "write">>

\* C10: the address in the word of a property call is the bus address of
\* the buffer, not its address in the calling process.
C10_BusAddress ==
    lastPush.prop =>
      <<lastPush.word[1], lastPush.word[2] - (lastPush.word[2] % 16)>>
        = VirtToBus(lastPush.addr)

\* C3 as stated: no caller's response word is taken by another caller.
C3_NoResponseLost ==
    \A c \in DOMAIN conc.pc : \A d \in DOMAIN conc.pc :
        (c # d /\ conc.pc[c] # "idle") =>
            conc.wanted[c] \notin Range(conc.popped[d])

\* C3, amended: with several callers on different channels each caller
\* returns only on a word equal to its own, the last word it reads, having
\* discarded every other word; a response word that another caller has read
\* is discarded there and lost, and its owner does not return.
C3_OwnResponseOnly ==
    \A c \in DOMAIN conc.pc :
        /\ conc.pc[c] = "done" =>
              /\ conc.popped[c] # <<>>
              /\ Last(conc.popped[c]) = conc.wanted[c]
              /\ \A i \in 1..(Len(conc.popped[c]) - 1) :
                    conc.popped[c][i] # conc.wanted[c]
        /\ \A d \in DOMAIN conc.pc :
              (c # d /\ conc.pc[c] # "idle"
                 /\ conc.wanted[c] \in Range(conc.popped[d])) =>
                    conc.pc[c] # "done"

\* One caller has discarded the response of another and returned on its own.
C3_Witness ==
    \E c \in DOMAIN conc.pc : \E d \in DOMAIN conc.pc :
        /\ c # d
        /\ conc.pc[c] \in {"c_bar", "c_empty"}
        /\ conc.wanted[c] \in Range(conc.popped[d])
        /\ conc.pc[d] = "done"
        /\ conc.pending = {}
        /\ wfifo = <<>>
        /\ rfifo = <<>>

\* C7: mbox_write, mbox_read and mbox_call have no timeout.  A wait is left
\* only when its flag is clear, a word that differs from the pushed one sends
\* mbox_call back to waiting, and there is no position other than those of
\* the three functions; and when the full flag keeps clearing, a firmware
\* that serves its requests makes every mbox_call return.
C7_NoTimeout ==
    /\ [][/\ (pc \in {"w_full", "c_full"} /\ STATUS_FULL) => pc' = pc
          /\ (pc \in {"r_empty", "c_empty"} /\ STATUS_EMPTY) => pc' = pc
          /\ (pc = "c_read" /\ rfifo # <<>> /\ Head(rfifo) # loc.wanted) =>
                pc' \in {"c_read", "c_bar"}
          /\ pc' \in {"idle", "done", "w_full", "w_data", "w_bar", "r_bar",
                      "r_empty", "r_data", "c_full", "c_data", "c_bar",
                      "c_empty", "c_read", "c_ret"}]_vars
    /\ ([]<>(~STATUS_FULL)) =>
          ((loc.fn = "mbox_call" /\ pc = "c_full") ~> (pc = "c_ret"))

\* mbox_call has polled an empty FIFO, then found a word and returned on it.
C7_Witness ==
    /\ loc.fn = "mbox_call"
    /\ pc = "c_ret"
    /\ acc = <<"empty=1", "empty=0", "read">>

\* C9: for every channel c in 0..15 and every 16-byte aligned address a the
\* word has c in its low 4 bits and the top 28 bits of a in its top 28 bits;
\* every buffer declared with mbox_property_struct is 16-byte aligned.
C9_WordFields ==
    /\ (lastPush # NoPush /\ lastPush.addr[2] % 16 = 0
          /\ lastPush.chan \in 0..15) =>
          /\ lastPush.word[2] % 16 = lastPush.chan
          /\ lastPush.word[1] = lastPush.addr[1]
          /\ lastPush.word[2] \div 16 = lastPush.addr[2] \div 16
    /\ lastPush.prop => lastPush.addr[2] % 16 = 0

\* Channel 15 and an address with all of its top 28 bits set.
C9_Witness ==
    /\ lastPush.chan = 15
    /\ lastPush.addr = <<Half - 1, Half - 16>>
    /\ lastPush.word = MaxU32

\* ------------------------------------------------------ claims: spisl.h
\* Positions in the log of spisl_init of the events of the set E.
Idx(E) == {i \in 1..Len(hist.log) : hist.log[i] \in E}
\* Every event of E is in the log before any event of F, and none after one.
AllBefore(E, F) ==
    /\ \A j \in Idx(F) : \A e \in E : \E i \in 1..(j - 1) : hist.log[i] = e
    /\ \A i \in Idx(E) : \A j \in Idx(F) : i < j
InputEvents == {"gpio28=Input", "gpio29=Input", "gpio30=Input", "gpio31=Input"}
Alt2Events == {"gpio28=Alt2", "gpio29=Alt2", "gpio30=Alt2", "gpio31=Alt2"}
InitSteps ==
    << InputEvents,
       {"drained"},
       {"CS.EN=0", "delay 1ms"},
       {"RXC=0", "TXC=0", "INTEN=0", "GRAY=0", "RXC.CH1EN=1", "TXC.CH1EN=1"},
       {"CM.DIV", "CM.CTL"},
       {"MODE=master", "CS=init_cs", "SYNC seen 1"},
       {"MODE=slave"} \cup Alt2Events >>
LaterSteps(s) == UNION {InitSteps[t] : t \in (s + 1)..Len(InitSteps)}

\* C11: spisl_init performs its seven steps in the stated order, none skipped
\* or reordered: whenever a statement of a step has run, every statement of
\* every earlier step has run before it and none of them runs after it; the
\* barrier follows the four Input settings and precedes the drain; inside a
\* step the stated order holds (EN cleared then the delay, divisor then
\* control register, master mode then enable then the SYNC wait); and
\* spisl_init returns only with every step done.
C11_InitOrder ==
    /\ \A s \in 1..(Len(InitSteps) - 1) : AllBefore(InitSteps[s], LaterSteps(s))
    /\ \A j \in Idx(LaterSteps(1)) :
          \E i \in 1..(j - 1) : /\ hist.log[i] = "barrier"
                                /\ \A k \in Idx(InputEvents) : k < i
    /\ AllBefore({"CS.EN=0"}, {"delay 1ms"})
    /\ AllBefore({"CM.DIV"}, {"CM.CTL"})
    /\ AllBefore({"MODE=master"}, {"CS=init_cs"})
    /\ AllBefore({"CS=init_cs"}, {"SYNC seen 1"})
    /\ AllBefore(InitSteps[Len(InitSteps)], {"return"})

\* spisl_init has run to its end.
C11_Witness ==
    /\ drv.fn = "none"
    /\ hist.log # <<>>
    /\ hist.log[Len(hist.log)] = "return"
    /\ Attached
    /\ pcm = PcmReady

\* The SYNC flag was seen set, then SYNC = 0 was written, then the flag was
\* seen clear.
HandshakeDone ==
    \E a, b, c \in 1..Len(hist.log) :
        /\ a < b /\ b < c
        /\ hist.log[a] = "SYNC seen 1"
        /\ hist.log[b] = "CS.SYNC=0"
        /\ hist.log[c] = "SYNC seen 0"
\* MODE holds the master / the slave configuration, whatever CLK_DIS is.
ModeIs(cfg) == [pcm.MODE EXCEPT !["CLK_DIS"] = 1] = cfg

\* C12: once spisl_init has written the master configuration, MODE holds the
\* slave configuration only after the handshake (SYNC seen set, SYNC = 0
\* written, SYNC seen clear), and spisl_init returns only after it: in a run
\* in which the flag never asserts or never clears neither happens.
C12_SlaveAfterHandshake ==
    /\ (Idx({"MODE=master"}) # {} /\ ModeIs(mode_slave)) => HandshakeDone
    /\ Idx({"MODE=slave", "return"}) # {} => HandshakeDone
    /\ \A i \in Idx({"MODE=slave"}) : \A j \in Idx({"SYNC seen 0"}) : j < i

\* The slave configuration has just been written, after the handshake.
C12_Witness ==
    /\ drv.fn = "spisl_init"
    /\ pcm.MODE = mode_slave
    /\ pcm.sync = 0
    /\ hist.log[Len(hist.log)] = "MODE=slave"

\* C13: once spisl_init has detached the pins GPIO 28..31, a pin is routed to
\* the PCM block only while MODE holds the slave configuration, never the
\* master configuration;
\* the pins are attached with the clock gated (CLK_DIS == 1), CLK_DIS is
\* cleared only once all four are Alt2, and a barrier comes directly before
\* the first and directly after the last of the four settings.
C13_AttachOnlyAsSlave ==
    /\ (Idx({"gpio31=Input"}) # {} /\ \E p \in PcmPins : fsel[p] = Alt2) =>
          (ModeIs(mode_slave) /\ ~ModeIs(mode_master))
    /\ (Idx({"MODE=slave"}) # {} /\ pcm.MODE["CLK_DIS"] = 0) => Attached
    /\ (Idx({"MODE=slave"}) # {} /\ ~Attached) => pcm.MODE = mode_slave
    /\ \A i \in Idx({"gpio28=Alt2"}) :
          /\ hist.log[i - 1] = "barrier"
          /\ \A j \in Idx(Alt2Events) : i <= j
    /\ \A i \in Idx({"gpio31=Alt2"}) :
          /\ i < Len(hist.log) => hist.log[i + 1] = "barrier"
          /\ \A j \in Idx(Alt2Events) : j <= i
    /\ \A i \in Idx({"MODE.CLK_DIS=0"}) :
          (\E j \in Idx({"MODE=slave"}) : j < i) =>
              /\ hist.log[i - 1] = "barrier"
              /\ \A e \in Alt2Events : \E j \in 1..(i - 1) : hist.log[j] = e

\* Two of the four pins are attached, the clock is gated.
C13_Witness ==
    /\ drv.fn = "spisl_init"
    /\ fsel[28] = Alt2 /\ fsel[29] = Alt2
    /\ fsel[30] = Input /\ fsel[31] = Input
    /\ pcm.MODE = mode_slave

\* C14 as stated: when spisl_write finds k >= 1 bytes in the receive FIFO
\* after it has written its byte, it reads and discards exactly one of them
\* before it returns.
C14_DrainsExactlyOne ==
    (hist.wret.done /\ hist.wret.k >= 1) => hist.wret.n = 1

\* C14, amended: spisl_write reads and discards bytes until the hardware no
\* longer reports receive-data-available: the k bytes that are in the
\* receive FIFO when it has written its byte, oldest first, and every byte
\* that arrives before it sees the FIFO empty; none is left when it returns.
C14_DrainsAll ==
    hist.wret.done =>
        /\ hist.wret.left = 0
        /\ hist.wret.n = hist.wret.k + hist.wret.during
        /\ SubSeq(hist.drained, 1, hist.wret.k) = hist.atWrite

\* spisl_write found two bytes in the receive FIFO and discarded both.
C14_Witness ==
    /\ drv.fn = "none"
    /\ hist.wret.done
    /\ hist.wret.k = 2
    /\ hist.wret.n = 2

\* The bytes of the receive FIFO that were received while a byte of
\* spisl_write was shifted out, as positions in the history of arrivals.
CompanionsInFifo ==
    {i \in (hist.taken + 1)..Len(hist.arrived) : hist.arrived[i].comp}

\* C15: the byte received while the byte of a spisl_write is shifted out is
\* never returned by a later spisl_read, and is not in the receive FIFO once
\* spisl_write has returned and the transfer is over.
C15_CompanionDiscarded ==
    /\ \A i \in 1..Len(hist.reads) : ~hist.arrived[hist.reads[i][1]].comp
    /\ (drv.fn = "none" /\ hist.wret.done) => CompanionsInFifo = {}

\* C16: spisl_read passes its wait only with a byte in the receive FIFO; the
\* FIFO holds the accepted bytes that were not yet removed, in arrival order;
\* every read returns the byte at the position it removes, and the reads
\* since the last spisl_write removed consecutive positions, up to the last
\* position removed: bytes come back in arrival order, none lost, none twice.
C16_ReadsInOrder ==
    /\ (drv.fn = "spisl_read" /\ drv.at = 193) => rxfifo # <<>>
    /\ hist.taken <= Len(hist.arrived)
    /\ rxfifo = [i \in 1..(Len(hist.arrived) - hist.taken) |->
                    hist.arrived[hist.taken + i].b]
    /\ \A i \in 1..Len(hist.reads) :
          hist.reads[i][2] = hist.arrived[hist.reads[i][1]].b
    /\ \A i \in 1..(Len(hist.reads) - 1) :
          hist.reads[i + 1][1] = hist.reads[i][1] + 1
    /\ hist.reads # <<>> => hist.reads[Len(hist.reads)][1] = hist.taken

\* Two different bytes were read one after the other, in arrival order.
C16_Witness ==
    /\ drv.fn = "none"
    /\ Len(hist.reads) = 2
    /\ hist.reads[1][2] = Marker
    /\ hist.reads[2][2] = Sentinel
    /\ drv.ret = Sentinel

\* The peripheral registers and FIFOs.
Hardware == <<pcm, fsel, rxfifo, txfifo, periph>>

\* C17: a poll that returned was called with num <= 0 and returned true, or
\* with num >= 1 and returned true only with at least one byte in the receive
\* FIFO, and for num == 1 exactly then; the step in which a poll function
\* executes changes no register and removes no byte from a FIFO.
C17_PollFrame ==
    /\ [](hist.poll.fn # "none" =>
            /\ hist.poll.num <= 0 => drv.ret # 0 \/ drv.fn # "none"
            /\ hist.poll.num >= 1 =>
                   (drv.fn = "none" /\ drv.ret # 0 => hist.poll.level >= 1)
            /\ hist.poll.num = 1 =>
                   (drv.fn = "none" => (drv.ret # 0 <=> hist.poll.level >= 1)))
    /\ [][drv.fn \in DOMAIN PollDev => UNCHANGED Hardware]_drv

\* spi_poll(1) has answered true with one byte in the FIFO of SPI0.
C17_Witness ==
    /\ drv.fn = "none"
    /\ hist.poll = [fn |-> "spi_poll", num |-> 1, level |-> 1]
    /\ drv.ret = 1

\* spisl_synchronize is running its own statements, not a function it called.
InSync == drv.fn = "spisl_synchronize"
\* The counting loop has ended: the next statement sends the ack.
SyncCounted == InSync /\ drv.at = 250

\* C18: spisl_synchronize counts only marker bytes read in a row: a byte that
\* differs from the marker sets the counter to 0 whatever it had counted, and
\* the ack is sent only when the ten bytes read before the last one were all
\* marker bytes.
C18_ResetOnWrongByte ==
    /\ (InSync /\ drv.at = 241) => drv.cnt - 1 <= hist.before
    /\ (InSync /\ drv.at = 245) => drv.cnt = 0
    /\ (InSync /\ drv.at = 247 /\ drv.incoming # drv.marker) => drv.cnt = 0
    /\ SyncCounted => hist.before >= SyncCount

\* Nine marker bytes were counted, the tenth byte was another one: the counter
\* is back at 0.
C18_Witness ==
    /\ InSync /\ drv.at = 247
    /\ hist.before = SyncCount - 1 /\ hist.run = 0
    /\ drv.incoming = Sentinel
    /\ drv.cnt = 0

C20_ReturnsOnSentinel ==
    (/\ wire.k0 = 0 /\ hist.gates = 0
     /\ wire.sent = SyncCount + 2 /\ wire.bad = 1 /\ wire.prev = Sentinel
     /\ rxfifo = <<>>)
    => ~(drv.fn = "spisl_read" /\ drv.at = 192 /\ drv.back = 254)

\* Where a run of spisl_synchronize is: before the statement that writes the
\* acknowledgement to the FIFO register, after it, or back in the caller.
BeforeAck ==
    \/ InSync /\ drv.at \in {239, 240, 241, 242, 243, 245, 247, 250}
    \/ drv.fn = "spisl_read" /\ drv.back = 240
    \/ drv.fn = "spisl_write" /\ drv.back = 252 /\ drv.at \in {203, 204}
AckWritten ==
    \/ drv.fn = "spisl_write" /\ drv.back = 252 /\ drv.at = 205
    \/ InSync /\ drv.at \in {252, 254}
    \/ drv.fn = "spisl_read" /\ drv.back = 254
SyncReturned == drv.fn = "none" /\ hist.wret.done
\* Bytes spisl_synchronize has read since it wrote the acknowledgement.
ReadSinceAck == hist.taken - hist.tx[1].taken - Len(hist.drained)

\* C21: spisl_synchronize writes no byte to the transmit FIFO while it counts
\* marker bytes; from the acknowledgement on, through the search for the
\* sentinel and at the return, it has written exactly one byte, the marker
\* 0x81, and the ten bytes read before the last one were marker bytes then.
C21_OneAck ==
    /\ BeforeAck => hist.tx = <<>>
    /\ (AckWritten \/ SyncReturned) =>
          /\ Len(hist.tx) = 1
          /\ hist.tx[1].data = Marker
          /\ hist.tx[1].before >= SyncCount

\* spisl_synchronize has returned, the master has received the marker.
C21_Witness ==
    /\ SyncReturned
    /\ Len(hist.tx) = 1 /\ hist.tx[1].data = Marker
    /\ wire.miso = <<Marker>>

\* C22: when spisl_synchronize has returned, the last byte it read is 0x7E
\* and that byte was read after the acknowledgement was written.
C22_SentinelReadAfterAck ==
    SyncReturned => /\ drv.ret = Sentinel
                    /\ ReadSinceAck >= 1

\* C23: a byte that is neither the marker nor the sentinel leaves the counter
\* of spisl_synchronize at 0, in the counting loop and after the
\* acknowledgement as well.
C23_MismatchAlwaysResets ==
    (InSync /\ drv.at \in {245, 247, 254}
            /\ drv.incoming \notin {Marker, Sentinel}) => drv.cnt = 0

\* C23, as the code has it: in the counting loop a byte that differs from
\* the marker leaves the counter at 0; once the acknowledgement is written
\* the counter stays at 11, no further pulse of the clock gate is given and
\* the clock stays on, whatever is read.
C23_ResetWhileCounting ==
    /\ (InSync /\ drv.at \in {245, 247} /\ drv.incoming # Marker) =>
           drv.cnt = 0
    /\ AckWritten =>
          /\ drv.cnt = SyncCount + 1
          /\ hist.gates = hist.tx[1].gates
          /\ pcm.MODE["CLK_DIS"] = 0

\* After the acknowledgement the byte 0 was read: the counter is still 11.
C23_Witness ==
    /\ InSync /\ drv.at = 254
    /\ ReadSinceAck >= 1
    /\ drv.incoming = 0
    /\ drv.cnt = SyncCount + 1

\* C24: with a master that sends marker bytes until it has received the
\* acknowledgement and then the byte 0x7E, spisl_synchronize is not left
\* waiting for a further byte once the master's 0x7E has been received and
\* the receive FIFO is empty.
C24_CooperatingMasterServed ==
    ~(/\ hist.tx # <<>>
      /\ wire.miso = <<Marker>>
      /\ wire.bad = 1 /\ wire.prev = Sentinel
      /\ wire.sent >= hist.tx[1].sent + 2
      /\ rxfifo = <<>>
      /\ drv.fn = "spisl_read" /\ drv.at = 192 /\ drv.back = 254)

\* The peripheral that a statement of spisl_init accesses.
Unit(ins) ==
    CASE ins.op = "barrier" -> "barrier"
      [] ins.op = "gpio" -> "GPIO"
      [] ins.op = "delay" -> "ST"
      [] ins.reg \in {"CM_DIV", "CM_CTL"} -> "CM"
      [] OTHER -> "PCM"

\* C25: of two statements that spisl_init has executed one after the other,
\* neither of them a barrier, both access the same peripheral: an access to
\* another peripheral comes only after a memory barrier.
C25_BarrierBetweenPeripherals ==
    \A i \in 1..(Len(hist.log) - 1) :
       i + 1 <= Len(spisl_init_code) =>
          LET a == Unit(spisl_init_code[i])
              b == Unit(spisl_init_code[i + 1])
          IN  (a # "barrier" /\ b # "barrier") => a = b

\* spisl_init is about to execute a statement that writes register r.
AboutToWrite(r) ==
    /\ drv.fn = "spisl_init" /\ drv.at <= Len(spisl_init_code)
    /\ spisl_init_code[drv.at].op \in {"field", "word", "struct"}
    /\ spisl_init_code[drv.at].reg = r
\* EN was cleared and the settle delay that follows has returned.
Settled ==
    \E i, j \in 1..Len(hist.log) :
        i < j /\ hist.log[i] = "CS.EN=0" /\ hist.log[j] = "delay 1ms"

\* C29: spisl_init writes RXC, TXC, INTEN, GRAY and MODE only with
\* CS.EN == 0 and after the settle delay has returned.
C29_WrittenOnlyDisabled ==
    \A r \in {"RXC", "TXC", "INTEN", "GRAY", "MODE"} :
        AboutToWrite(r) => (pcm.CS["EN"] = 0 /\ Settled)

\* C29, as the code has it: RXC, TXC, INTEN, GRAY and the master
\* configuration of MODE are written with CS.EN == 0 and after the settle
\* delay; from the clearing of EN to the write of init_cs the module stays
\* disabled, and init_cs is written only after the channels, the clock
\* manager and the master MODE; MODE is written again for the slave
\* configuration with the module enabled, after the SYNC handshake.
C29_ConfiguredWhileDisabled ==
    /\ \A r \in {"RXC", "TXC", "INTEN", "GRAY"} :
          AboutToWrite(r) => (pcm.CS["EN"] = 0 /\ Settled)
    /\ (AboutToWrite("MODE") /\ Idx({"CS=init_cs"}) = {}) =>
          (pcm.CS["EN"] = 0 /\ Settled)
    /\ (AboutToWrite("MODE") /\ Idx({"CS=init_cs"}) # {}) =>
          (pcm.CS["EN"] = 1 /\ HandshakeDone)
    /\ (drv.fn = "spisl_init" /\ Idx({"CS.EN=0"}) # {}
          /\ Idx({"CS=init_cs"}) = {}) => pcm.CS["EN"] = 0
    /\ AllBefore({"RXC.CH1EN=1", "TXC.CH1EN=1", "CM.DIV", "CM.CTL",
                  "MODE=master"}, {"CS=init_cs"})

\* A module that was in use is disabled, the delay is over, GRAY has just
\* been written.
C29_Witness ==
    /\ drv.fn = "spisl_init"
    /\ hist.log # <<>> /\ Last(hist.log) = "GRAY=0"
    /\ Settled
    /\ pcm.CS["EN"] = 0 /\ pcm.CS["RXON"] = 1

\* spisl_init has returned and has not been called again.
InitReturned ==
    drv.fn = "none" /\ hist.log # <<>> /\ Last(hist.log) = "return"

\* C30: when spisl_init has returned, RXC and TXC enable channel 1 only,
\* with 8-bit width, MODE has FLEN = 7, CLKM = 1, FSM = 1 and CLK_DIS = 0,
\* INTEN is 0, CS.EN is 1 and GPIO 28..31 are Alt2.
C30_SlaveBytePipe ==
    InitReturned =>
       /\ \A r \in {"RXC", "TXC"} :
             /\ pcm[r]["CH1EN"] = 1 /\ pcm[r]["CH2EN"] = 0
             /\ pcm[r]["CH1WID"] = 0 /\ pcm[r]["CH1WEX"] = 0
       /\ pcm.MODE["FLEN"] = 7
       /\ pcm.MODE["CLKM"] = 1 /\ pcm.MODE["FSM"] = 1
       /\ pcm.MODE["CLK_DIS"] = 0
       /\ pcm.INTEN["U"] = 0
       /\ pcm.CS["EN"] = 1
       /\ \A p \in PcmPins : fsel[p] = Alt2

\* spisl_init has returned with the slave configuration in MODE, and a byte
\* of the master has arrived since.
C30_Witness ==
    /\ InitReturned
    /\ pcm.MODE = [mode_slave EXCEPT !["CLK_DIS"] = 0]
    /\ pcm.RXC["CH2EN"] = 0 /\ pcm.GRAY["U"] = 0
    /\ rxfifo # <<>>

\* n ticks are at least the 32-bit number d.
AtLeast(n, d) == d[1] < 2^15 /\ n >= d[1] * Half + d[2]
InDelayLoop == drv.fn = "st_delay" /\ drv.at = 1496
DelayReturned == drv.fn = "none" /\ st.polled

MapOk == {i \in 1..Len(os.rets) : os.rets[i] = 1}
FirstOk == IF MapOk = {} THEN os.calls ELSE CHOOSE i \in MapOk :
                                              \A j \in MapOk : i <= j

\* C27: raspi_map_hw returns 0 or 1; pHW is non-null exactly when a call has
\* returned 1; a call that has returned 0 has left pHW as it was; after a
\* call that returned 1 every call returns 1, and /dev/mem is opened and
\* mapped by no call after the first that returned 1.
C27_MappedIffReturnedTrue ==
    /\ \A i \in 1..Len(os.rets) : os.rets[i] \in {0, 1}
    /\ pHW # 0 <=> MapOk # {}
    /\ (drv.fn = "none" /\ os.rets # <<>> /\ Last(os.rets) = 0) =>
          (pHW = os.was /\ drv.ret = 0)
    /\ \A i, j \in 1..Len(os.rets) : (i < j /\ os.rets[i] = 1) => os.rets[j] = 1
    /\ os.opens <= FirstOk /\ os.maps <= os.opens

\* A call failed in mmap, the next one mapped the registers, a third one
\* returned 1 at once.
C27_Witness ==
    /\ drv.fn = "none"
    /\ os.rets = <<0, 1, 1>>
    /\ os.opens = 2 /\ os.maps = 2
    /\ pHW \in MapAddrs

SpiStartReturned == drv.fn = "none" /\ spi0.open
SpiStopped == drv.fn = "none" /\ ~spi0.open /\ spi0.seenDone

\* C28: when spi_start has returned the transfer is active (TA = 1) for the
\* chip select named in the call, and the receive FIFO is empty from the
\* clearing in spi_start until the first byte is shifted; spi_stop clears TA
\* only after it has read DONE as 1, with nothing left in the transmit FIFO;
\* from the return of spi_start until spi_stop clears it, TA stays 1.
C28_StartClearsStopDrains ==
    /\ SpiStartReturned => (spi0.TA = 1 /\ spi0.CS = spi0.dest)
    /\ spi0.fresh => periph.SPI0 = 0
    /\ (drv.fn = "spi_stop" /\ drv.at = 77) => (spi0.seenDone /\ spi0.tx = 0)
    /\ spi0.pending = 0
    /\ spi0.TA = 0 => (~spi0.open /\ spi0.tx = 0)
    /\ spi0.open => spi0.TA = 1

\* A transfer was stopped after its bytes had been sent and their answers
\* were left in the receive FIFO; the next one, to chip select 1, has been
\* started and holds two bytes to send, none of them shifted yet.
C28_Witness ==
    /\ SpiStartReturned
    /\ spi0.dest = 1 /\ spi0.seenDone
    /\ spi0.fresh /\ spi0.tx = 2

GateClosed == pcm.MODE["CLK_DIS"] = 1

\* C31: in spisl_synchronize every byte compared and found to differ from
\* the marker is followed, before the next read, by one pulse of the clock
\* gate (CLK_DIS = 1 at line 242, the delay of line 243, CLK_DIS = 0 at
\* line 245), and a byte equal to the marker by none; CLK_DIS is 1 only
\* between lines 242 and 245, so it is 0 whenever spisl_read or spisl_write
\* runs and when the function has returned; no pulse is begun after the ack
\* has been written.
C31_OnePulsePerWrongByte ==
    /\ GateClosed <=> (InSync /\ drv.at \in {243, 245})
    /\ hist.gates = hist.wrong - Bit(InSync /\ drv.at = 242)
    /\ hist.pulses = hist.gates - Bit(GateClosed)
    /\ (InSync /\ drv.at = 242) => drv.incoming # drv.marker
    /\ drv.fn = "spisl_read" => (~GateClosed /\ hist.pulses = hist.wrong)
    /\ (AckWritten \/ SyncReturned) => hist.gates = hist.tx[1].gates
    /\ SyncReturned => ~GateClosed

\* The stream came delayed by three bits, three bytes were found wrong and
\* three pulses given, and the ack has been written.
C31_Witness ==
    /\ InSync /\ drv.at = 254
    /\ AckWritten
    /\ wire.k0 = 3
    /\ hist.wrong = 3 /\ hist.pulses = 3

\* C32: when spisl_synchronize sends the ack it has read 11 bytes since it
\* was called or last found a wrong byte, and the last byte it compared is
\* the tenth of them: the eleventh is compared with nothing but the
\* sentinel, after the ack, and when it is the sentinel the function returns
\* with no byte read after the ack, and otherwise not without one.
C32_EleventhByteUncompared ==
    /\ SyncCounted =>
          (hist.taken - hist.mark = SyncCount + 1
              /\ hist.compared = hist.taken - 1)
    /\ (AckWritten \/ SyncReturned) =>
          /\ hist.tx[1].taken - hist.mark = SyncCount + 1
          /\ hist.compared = hist.tx[1].taken - 1
    /\ SyncReturned =>
          (hist.eleventh = Sentinel <=> ReadSinceAck = 0)

\* The eleventh byte was the sentinel: the function has returned it and has
\* read nothing after the ack.
C32_Witness ==
    /\ SyncReturned
    /\ hist.eleventh = Sentinel
    /\ drv.ret = Sentinel
    /\ ReadSinceAck = 0
    /\ hist.taken - hist.mark = SyncCount + 1

InSetClock == loc.fn = "mbox_set_clock"
PushedTag(t) == lastPush.prop /\ lastPush.buf.tag = U32(t)
\* The request words for the buffer of the running function that are on
\* their way to the firmware or back from it.
Outstanding ==
    Cardinality({i \in 1..Len(wfifo) :
                    wfifo[i] = WordOf(MBOX_CH_PROPVC, loc.addr)})
    + Cardinality({i \in 1..Len(rfifo) :
                      rfifo[i] = WordOf(MBOX_CH_PROPVC, loc.addr)})

\* C33: mbox_set_clock pushes its buffer twice: as SET_CLOCK_STATE with data
\* [clock, 1] before any word it waits for has come back, then as
\* SET_CLOCK_RATE with data [clock, freq, 0] after exactly one has; it
\* returns after the second has come back, and at no time is more than one
\* request for the buffer on its way, none when a request is about to be
\* pushed.
C33_SetClockTwoRoundTrips ==
    InSetClock =>
      /\ loc.callno \in {1, 2}
      /\ loc.matched \in {loc.callno - 1, loc.callno}
      /\ lastPush.prop =>
            \/ /\ lastPush.buf.tag = U32(MBOX_TAG_SET_CLOCK_STATE)
               /\ lastPush.buf.data[0] = U32(loc.clock)
               /\ lastPush.buf.data[1] = U32(1)
               /\ loc.callno = 1 \/ pc \in {"p_call", "c_full", "c_data"}
            \/ /\ lastPush.buf.tag = U32(MBOX_TAG_SET_CLOCK_RATE)
               /\ lastPush.buf.data =
                     [i \in 0..2 |-> IF i = 0 THEN U32(loc.clock)
                                     ELSE IF i = 1 THEN loc.freq ELSE Zero]
               /\ loc.callno = 2
      /\ lastPush.addr = (IF lastPush.prop THEN loc.addr ELSE Zero)
      /\ loc.callno = 2 => (lastPush.prop /\ loc.matched >= 1)
      /\ pc \in {"p_call", "c_full", "c_data"} =>
            (Outstanding = 0 /\ loc.matched = loc.callno - 1
               /\ (lastPush.prop <=> loc.callno = 2))
      /\ Outstanding <= 1
      /\ pc = "done" =>
            (loc.matched = 2 /\ PushedTag(MBOX_TAG_SET_CLOCK_RATE)
               /\ Outstanding = 0)

\* mbox_set_clock(MBOX_CLOCK_UART, 3000000), as uart0_init calls it, has
\* made both round trips, with the word of another user read in between.
C33_Witness ==
    /\ InSetClock /\ pc = "done"
    /\ loc.clock = MBOX_CLOCK_UART /\ loc.freq = U32(3000000)
    /\ PushedTag(MBOX_TAG_SET_CLOCK_RATE)
    /\ loc.matched = 2
    /\ noise = 1

\* C34: mbox_get_clock has returned after one request, GET_CLOCK_STATE, and
\* with the value 0 when that request came back with data[1] == 0, and after
\* a second one, GET_CLOCK_RATE, when it came back with data[1] # 0;
\* mbox_get_clock_measured has returned after one request,
\* GET_CLOCK_RATE_MEASURED.  Neither pushes more than that while it runs.
C34_RateAskedOnlyWhenOn ==
    /\ loc.fn = "mbox_get_clock" =>
          /\ loc.pushes <= 2
          /\ loc.pushes = 2 => (loc.callno = 2 /\ loc.state # Zero)
          /\ PushedTag(MBOX_TAG_GET_CLOCK_RATE) => loc.pushes = 2
          /\ pc = "done" =>
                IF loc.state = Zero
                THEN /\ ret = Zero
                     /\ loc.pushes = 1
                     /\ PushedTag(MBOX_TAG_GET_CLOCK_STATE)
                ELSE /\ loc.pushes = 2
                     /\ PushedTag(MBOX_TAG_GET_CLOCK_RATE)
    /\ loc.fn = "mbox_get_clock_measured" =>
          /\ loc.pushes <= 1
          /\ lastPush.prop => PushedTag(MBOX_TAG_GET_CLOCK_RATE_MEASURED)
          /\ pc = "done" => loc.pushes = 1

\* The firmware has left data[1] == 0 with the error code set, and
\* mbox_get_clock has returned 0 after its one request.
C34_Witness ==
    /\ loc.fn = "mbox_get_clock" /\ pc = "done"
    /\ fwAns.any /\ fwAns.code = PROP_RESPONSE_ERROR /\ fwAns.value = Zero
    /\ loc.state = Zero /\ loc.pushes = 1
    /\ ret = Zero

\* Bits 3k .. 3k+2 of a register, k in 0..9, and its bits 30 and 31.
FselField(w, k) ==
    IF k < 5 THEN (w[2] \div 8^k) % 8
    ELSE IF k = 5 THEN w[2] \div 2^15 + 2 * (w[1] % 4)
    ELSE (w[1] \div 2^(3 * k - 16)) % 8
FselTop(w) == w[1] \div 2^14

\* C35: after any sequence of calls of gpio_configure the function field of
\* every pin holds the function of the last call for that pin, or what it
\* held at the start if there was none, and bits 30 and 31 of every FSEL
\* register, which belong to no pin, hold what they held at the start.
C35_LastConfigureWins ==
    /\ \A p \in 0..(GpioPinCount - 1) :
          FselField(GPIO.FSEL[p \div 10], p % 10) =
             (IF GPIO.last[p] # 0 - 1 THEN GPIO.last[p]
              ELSE FselField(GPIO.was[p \div 10], p % 10))
    /\ \A i \in 0..5 :
          /\ FselTop(GPIO.FSEL[i]) = FselTop(GPIO.was[i])
          /\ \A k \in 0..9 : 10 * i + k >= GpioPinCount =>
                FselField(GPIO.FSEL[i], k) = FselField(GPIO.was[i], k)

\* Pin 5, whose field lies across bit 16, was made an output, then its
\* neighbours 4 and 6 were configured as Alt0 and Alt3.
C35_Witness ==
    /\ GPIO.calls = 3
    /\ GPIO.last[5] = Output /\ GPIO.last[4] = Alt0 /\ GPIO.last[6] = Alt3
    /\ GPIO.was[0] = <<2^14 - 1, Half - 1>>
    /\ GPIO.FSEL[0] = <<2^14 - 1 - 3, Half - 1 - 3 * 2^12>>

\* C36: with at least num bytes in the receive FIFO of SPI0, num in 1..16,
\* spi_poll(num) returns true, whatever the fill level; and a call of
\* spi_poll with such a num that found at least num bytes has returned true.
C36_PollComplete ==
    /\ \A num \in 1..raspi_SPI_FIFOSIZE :
          periph.SPI0 >= num => spi_poll(num) # 0
    /\ (/\ drv.fn = "none"
        /\ hist.poll.fn = "spi_poll"
        /\ hist.poll.num >= 1
        /\ hist.poll.level >= hist.poll.num) => drv.ret # 0

\* spi_poll(12) has returned true with 12 bytes in the FIFO, one more than
\* RXD alone is used for.
C36_Witness ==
    /\ drv.fn = "none" /\ drv.ret = 1
    /\ hist.poll = [fn |-> "spi_poll",
                    num |-> (raspi_SPI_FIFOSIZE * 3) \div 4,
                    level |-> (raspi_SPI_FIFOSIZE * 3) \div 4]

SpiInitReturned == drv.fn = "none" /\ spi0.inited
\* CORE_CLOCK / speed for the speed of the last spi_init.
Quotient == Div32(CORE_CLOCK, spi0.speed)

\* C37: when spi_init(speed) has returned, CLK.CDIV holds 2 for a quotient
\* CORE_CLOCK / speed below 2, 0 (the divider 65536) for a quotient of 65536
\* or more, and the quotient itself otherwise.
C37_DividerClamped ==
    SpiInitReturned =>
       spi0.CDIV = (IF Quotient < 2 THEN 2
                    ELSE IF Quotient >= 65536 THEN 0
                    ELSE Quotient)

UartInitReturned == drv.fn = "none" /\ uart0.inited

\* C38: when uart_init or uart0_init has returned for a bit rate b >= 3, the
\* divisor registers hold IBRD * 64 + FBRD == floor(4 * UARTCLK / b), with
\* FBRD below 64 and IBRD the whole of floor(UARTCLK / b / 16), which fits
\* the 16 bits of its field; 4 * UARTCLK is below 2^32.
C38_BaudDivisor ==
    /\ UARTCLK <= (2^30 - 1) \div 2
    /\ UartInitReturned =>
          /\ uart0.IBRD * 64 + uart0.FBRD = Div32(4 * UARTCLK, uart0.bitrate)
          /\ uart0.FBRD = Div32(4 * UARTCLK, uart0.bitrate) % 64
          /\ uart0.IBRD = Div32(4 * UARTCLK, uart0.bitrate) \div 64
          /\ uart0.IBRD < Half

\* An initialisation for 115200 bit/s has returned: the divisor is
\* 1 + 40/64, the UART is enabled and pin 14 is on Alt0.
C38_Witness ==
    /\ UartInitReturned
    /\ uart0.bitrate = U32(115200)
    /\ uart0.IBRD = 1 /\ uart0.FBRD = 40
    /\ uart0.CR.UARTEN = 1
    /\ GPIO.last[14] = Alt0
====
